---- MODULE Spec2Model ----
(***************************************************************************)
(* UPDI4AVR-USB: the EDBG transport framing of jtag.cpp, the timeout       *)
(* supervisor of timeout.cpp and the session handling of the UPDI, PDI and *)
(* TPI engines, as state machines.                                         *)
(*                                                                         *)
(* SpecFrame   : JTAG::dap_command_check / complete_jtag_transactions      *)
(*               driven by arbitrary host HID reports.                     *)
(* SpecCmd     : Timeout::command with the UPDI and PDI timeout_fallback,  *)
(*               around an operation that returns a value or never does.   *)
(* FairSpecCmd : SpecCmd where the CPU keeps running and TCB0 keeps        *)
(*               counting.                                                 *)
(* SpecSess    : JTAG::jtag_scope_branch and the UPDI, PDI and TPI scopes  *)
(*               driven by arbitrary host commands, with a target that is  *)
(*               absent or of one of the three kinds, and the deadline     *)
(*               interrupt firing at any point of a supervised operation.  *)
(* FairSpecSess: SpecSess where the CPU keeps running and TCB0 keeps       *)
(*               counting.                                                 *)
(***************************************************************************)
EXTENDS Integers, Sequences, FiniteSets, TLC

(***************************************************************************)
(* Integer widths of the AVR build: uint8_t, and a 16 bit size_t / int.    *)
(***************************************************************************)
U8(x)  == x % 256
U16(x) == x % 65536

RECURSIVE BitAnd(_, _)
BitAnd(a, b) ==
  IF a = 0 \/ b = 0 THEN 0
  ELSE (a % 2) * (b % 2) + 2 * BitAnd(a \div 2, b \div 2)

RECURSIVE BitOr(_, _)
BitOr(a, b) ==
  IF a = 0 THEN b
  ELSE IF b = 0 THEN a
  ELSE (IF (a % 2 = 1) \/ (b % 2 = 1) THEN 1 ELSE 0) + 2 * BitOr(a \div 2, b \div 2)

(***************************************************************************)
(* Program constants of the transport framing.                             *)
(***************************************************************************)
ChunkLen    == 60     \* payload bytes of one HID report
RawDataLen  == 540    \* sizeof(packet.rawData)
EndfLimit   == 10     \* _endf >= 10 is refused
DapDataLen  == 64     \* sizeof(EP_MEM.dap_data)
TokenOfs    == 1      \* offsetof(JTAG_Packet_t, in.token)
DataOfs     == 5      \* offsetof(JTAG_Packet_t, in.res)
RspOverhead == 6      \* TOKEN + SEQ[2] + EOT + PAD
EndfRound   == 65     \* (_length + 65) / 60
TOKEN       == 14     \* 0x0E
EDBG_CMD    == 128    \* 0x80 DAP_EDBG_VENDOR_AVR_CMD
EDBG_RSP    == 129    \* 0x81 DAP_EDBG_VENDOR_AVR_RSP
DAP_OTHER   == 3      \* 0x03 DAP_CMD_DISCONNECT, a DAP standard command

(***************************************************************************)
(* Program constants of the timeout fallbacks.                             *)
(***************************************************************************)
UPDI_FLOOR == 40      \* UPDI::timeout_fallback: _xclk == 40
UPDI_STEP  == 25      \* _xclk -= 25
F_CPU      == 20000000
PDI_FLOOR  == 50      \* PDI::timeout_fallback: _xclk == 50
PDI_STEP   == 50      \* _xclk -= 50
ARCH_PDI   == 3       \* _jtag_arch 3:PDI
ARCH_UPDI  == 5       \* _jtag_arch 5:UPDI
NoValue    == 65536   \* no size_t value
HistCap == 3
NoHist == [owed |-> 0, elapsed |-> 0, fallbacks |-> 0]
Capped(n) == IF n > HistCap THEN HistCap ELSE n

(***************************************************************************)
(* Program constants of the JTAGICE3 dispatcher.                           *)
(***************************************************************************)
SCOPE_GENERAL        == 1     \* 0x01
SCOPE_AVR            == 18    \* 0x12
SCOPE_AVR_TPI        == 20    \* 0x14
SCOPE_EDBG           == 32    \* 0x20
CMD3_SET_PARAMETER   == 1     \* 0x01
CMD3_GET_PARAMETER   == 2     \* 0x02
CMD3_SIGN_ON         == 16    \* 0x10
CMD3_SIGN_OFF        == 17    \* 0x11
CMD3_ENTER_PROGMODE  == 21    \* 0x15
CMD3_LEAVE_PROGMODE  == 22    \* 0x16
CMD3_ERASE_MEMORY    == 32    \* 0x20
CMD3_READ_MEMORY     == 33    \* 0x21
CMD3_WRITE_MEMORY    == 35    \* 0x23
XPRG_CMD_ENTER_PROGMODE == 1
XPRG_CMD_LEAVE_PROGMODE == 2
XPRG_CMD_ERASE       == 3
XPRG_CMD_READ_MEM    == 5
PARM3_CLK_XMEGA_PDI  == 49    \* section 1, index 0x31
PARM3_OPT_12V_UPDI_ENABLE == 6    \* section 3, index 6
RSP3_OK     == 128    \* 0x80
RSP3_DATA   == 132    \* 0x84
RSP3_FAILED == 160    \* 0xA0
XPRG_ERR_OK     == 0
XPRG_ERR_FAILED == 1
SIB_LEN == 5          \* read_sib returns 5
ConnectRetries == 4   \* UPDI::connect: for (_r = 0; _r < 4; _r++)
NVM_V4 == 52          \* _sib[10] == '4'
NVM_V3 == 51          \* _sib[10] == '3'

(***************************************************************************)
(* Program constants of the memory commands.                               *)
(***************************************************************************)
MTYPE_EEPROM       == 34       \* 0x22
MTYPE_FLASH_PAGE   == 176      \* 0xB0
MTYPE_FUSE_BITS    == 178      \* 0xB2
MTYPE_LOCK_BITS    == 179      \* 0xB3
MTYPE_SIGN_JTAG    == 180      \* 0xB4
MTYPE_FLASH        == 192      \* 0xC0
MTYPE_EEPROM_XMEGA == 196      \* 0xC4
MTYPE_USERSIG      == 197      \* 0xC5
MTYPE_SIB          == 211      \* 0xD3
PROG_START         == 8388608  \* 0x800000
NoPage             == -1       \* _before_page = -1L, no page address
SIG_BYTE0          == 30       \* 0x1E
SIG_ATTINY40       == 37390    \* 0x920E
SIG_ATTINY20       == 37135    \* 0x910F
VTARGET_MIN        == 4500     \* _vtarget < 4500
XPRG_MEM_TYPE_APPL == 1        \* m_type != 0x01

(***************************************************************************)
(* Bounds of the exploration.                                              *)
(***************************************************************************)
MaxPkts == 3          \* HID reports the host sends in one behaviour
MaxCmds == 3          \* JTAGICE3 commands the host sends in one behaviour
NvmOther == 54        \* a SIB NVM version character read_sib does not know
MaxMem == 3           \* memory commands the host sends in one behaviour

(***************************************************************************)
(* Bytes the model cannot know: memory outside the modelled objects, and   *)
(* the power-on content of the .noinit section.                            *)
(***************************************************************************)
Unknown == 256
Stale   == 238

\* The 0x80 reports the host sends: frag and endf are the nibbles of
\* dap_data[1], size is dap_data[3], pat the first payload byte.
Frag(frag, endf, size, pat) ==
  [cmd |-> EDBG_CMD, frag |-> frag, endf |-> endf, size |-> size, pat |-> pat]
HostFrags ==
  { Frag(1, 1, 1, 16),      \* a message of one fragment
    Frag(1, 2, 60, 16),     \* first of two, full
    Frag(1, 2, 1, 32),      \* first of two, short
    Frag(2, 2, 1, 128),     \* last of two
    Frag(1, 10, 1, 48),     \* declares ten fragments
    Frag(2, 15, 60, 48),    \* declares fifteen fragments
    Frag(10, 9, 1, 64) }    \* index past the buffer
RspLens == {0, 54, 55}   \* _rspsize values of the dispatcher
RspPats == {64}
NoInitChunks  == {0, 255}        \* power-on values of _packet_chunks
NoInitEndfrag == {0, 1}          \* power-on values of _packet_endfrag
CmdClocks == {40, 50, 65, 225}  \* _xclk set by the host (-B)
OpValues  == {0, 5}              \* what an operation returns
XclkDefault == 225               \* UPDI_CLK / 1000
Havoc8  == {0, 2}             \* a byte overwritten by an overflowing copy

VARIABLES
  rawData,          \* packet.rawData[540]
  packet_length,    \* _packet_length
  packet_fragment,  \* _packet_fragment
  packet_chunks,    \* _packet_chunks
  packet_endfrag,   \* _packet_endfrag
  ep_dpo,           \* EP_DPO: "listen" (armed) or "busnak" (a report arrived)
  dap_out,          \* EP_MEM.dap_data as the host wrote it
  dap_in,           \* EP_MEM.dap_data as returned to the host
  main_pc,          \* main loop: "poll", or "branch" when dap_command_check
                    \* returned true and jtag_scope_branch is about to run
  msgDone,          \* history: the last fragment handled ended its message
  msgFrags,         \* history: the fragments of the inbound message so far
  rsp,              \* history: the response bytes complete_jtag_transactions left
  rspValid,         \* history: a response was prepared, and no inbound
                    \* fragment was copied into the buffer since
  served,           \* history: the fragments served for that response
  npkts             \* history: reports sent so far

VARIABLES
  xclk,             \* _xclk, kHz
  usart,            \* USART0 mode: "off", "vcp", "updi", "pdi", "tpi"
  jtag_arch,        \* _jtag_arch
  tcb0,             \* TCB0_CTRLA enabled: the deadline is counting
  t_pc,             \* Timeout::command: "idle", "loop", "op", "stop",
                    \* "expired", "ret"
  t_func,           \* func_p
  t_fail,           \* fail_p: "none", "UPDI", "PDI"
  t_result,         \* volatile _result
  op_ret,           \* history: what the last returned (*func_p)() returned
  t_retried,        \* history: a fallback made command retry the operation
  t_hist            \* history: the deadlines that elapsed in this call of
                    \* command and the calls of the fallback, both counted
                    \* up to HistCap, and the first less the second

VARIABLES
  PGCONF,           \* GPR_GPR1: the set of bits "UPDI" (link), "PROG",
                    \* "ERSE", "HVEN" that are set
  Command_Table,    \* the NVM variant Command_Table is bound to, or "noinit"
  jtag_hvctrl,      \* _jtag_hvctrl # 0
  target,           \* the device on the programming lines: kind, the NVM
                    \* version character of its SIB, locked at power-on
  t_lock,           \* the target is locked
  t_on,             \* the target's programming interface is enabled
  s_pc,             \* dispatcher: "idle", "branch" (a command is complete),
                    \* "wait" (inside Timeout::command)
  s_cmd,            \* packet.out: scope, cmd, section, index, data
  s_k,              \* where the dispatcher goes on when command returns
  s_r,              \* UPDI::connect: _r
  s_bak,            \* UPDI::connect: _bak
  res,              \* packet.in.res (tpi_res in the TPI scope)
  rspsize,          \* _rspsize handed to complete_jtag_transactions
  ncmds,            \* history: commands sent so far
  updi_connected,   \* history: a UPDI::connect has succeeded
  ct_early          \* history: the binding of Command_Table at the last
                    \* call made through it before the first successful
                    \* UPDI::connect, "none" if there was no such call

VARIABLES
  before_page,      \* _before_page
  sib,              \* _sib[0] and _sib[10]
  n_cmd,            \* history: the last memory command, and PGCONF as it came
  n_out,            \* history: its answer and what it made the target do
  n_prev,           \* history: where the flash write before the last flash
                    \* write of the session went, NoPage if there was none
  n_last,           \* history: where the last flash write of the session went
  n_cmds,           \* history: memory commands sent so far
  tpi_chunks,       \* _tpi_chunks
  vtarget,          \* _vtarget, mV
  v_enter,          \* history: _vtarget as XPRG_CMD_ENTER_PROGMODE measured it
  n_own,            \* history: addresses of the programmer's own data space
                    \* the last command stored to, the packet buffer apart
  h_arch,           \* history: the data of the last SET_PARAMETER(PARM3_ARCH)
                    \* handled since the general SIGN_ON, NoArch if none
  gp_vcp,           \* GPCONF_VCP_bp
  gp_brk,           \* GPCONF_BRK_bp
  line_enc          \* _set_line_encoding.dwDTERate

vcpVars == <<gp_vcp, gp_brk, line_enc>>

VARIABLES
  gp_usb,           \* GPCONF_USB_bp
  gp_fal,           \* GPCONF_FAL_bp
  gp_ris,           \* GPCONF_RIS_bp
  usb_addr,         \* USB0_ADDR is not 0
  dtr,              \* _set_line_state.bStateDTR
  trst,             \* the level PIN_PGM_TRST is left at
  wdt,              \* _wdt of main: the loop refreshes the watchdog
  h_sw0,            \* history: whether the link was held when SW0 last
                    \* acted on the target, "none" if it never acted
  h_boot            \* history: what restarted the system in the last step,
                    \* "none" if the step was no restart

sysVars == <<gp_usb, gp_fal, gp_ris, usb_addr, dtr, trst, wdt, h_sw0, h_boot>>

VARIABLES
  dev_desc,         \* the first DescLen bytes of Device_Descriptor
  h_cur,            \* history: the bytes of it uploaded since the last
                    \* general SIGN_ON
  h_old             \* history: what was uploaded last to each byte in the
                    \* sessions before it, NoValue if nothing was

descVars == <<dev_desc, h_cur, h_old>>

VARIABLES
  rt_pc,            \* "host", "written" after a WRITE_MEMORY, "read" after
                    \* the READ_MEMORY that follows it
  rt_w,             \* the WRITE_MEMORY the host sent, and the answer
  rt_mem,           \* the target: where the bytes of memData were stored
  rt_r              \* the READ_MEMORY the host sent, and the answer

rtVars == <<rt_pc, rt_w, rt_mem, rt_r>>

VARIABLES
  sb_data,          \* _data of UPDI::send_bytes, _len bytes
  sb_echo,          \* what the USART receives after each byte sent:
                    \* USART0_RXDATAH and USART0_RXDATAL
  sb_sent,          \* the bytes written to USART0_TXDATAL so far
  sb_ret            \* what send_bytes returned, NoValue while it runs

sendVars == <<sb_data, sb_echo, sb_sent, sb_ret>>

VARIABLES
  cb_pc,            \* where UPDI::connect is in its retry loop
  cb_r,             \* _r
  cb_t,             \* 1/1024 s units of TCB0 gone by since the loop began
  cb_hv,            \* the high-voltage pulse was given before the loop
  cb_ret            \* what connect returned, NoValue while it runs

budgetVars == <<cb_pc, cb_r, cb_t, cb_hv, cb_ret>>

VARIABLES
  ep_pc,            \* where UPDI::enter_progmode is
  ep_rx,            \* RXDATA
  ep_lock,          \* the target is lock-fused
  ep_prog,          \* PGCONF_PROG_bp
  ep_h,             \* history of this call: the key was sent, the key bit
                    \* was read set, LOCKSTATUS was read clear, prog_init ran
  ep_ret            \* what enter_progmode returned, NoValue while it runs

progVars == <<ep_pc, ep_rx, ep_lock, ep_prog, ep_h, ep_ret>>

VARIABLES
  bw_func,          \* the block write that runs: "bytes", "fill" or "words"
  bw_len,           \* _wLength
  bw_log,           \* what it has sent or waited for so far, in order
  bw_rsd,           \* the target has its response signature disabled
  bw_ret            \* what it returned, NoValue while it runs

blockVars == <<bw_func, bw_len, bw_log, bw_rsd, bw_ret>>

VARIABLES
  ln_op,            \* what was handled last: "copy", "read" or "none"
  ln_in,            \* the host's numbers it was handled with
  ln_writes,        \* the stores it made through packet: offset in
                    \* packet.rawData and number of bytes
  ln_rsp            \* _rspsize, _packet_length and _packet_endfrag it left

lenVars == <<ln_op, ln_in, ln_writes, ln_rsp>>

restVars == <<rtVars, sendVars, budgetVars, progVars, blockVars, lenVars>>

\* the state of the memory commands
nvmIdle == <<before_page, sib, n_cmd, n_out, n_prev, n_last, n_cmds,
             tpi_chunks, vtarget, v_enter, n_own>>

nvmVars == <<nvmIdle, h_arch, vcpVars, sysVars, descVars, restVars>>

\* the dispatcher's state but PGCONF and Command_Table
sessIdle == <<jtag_hvctrl, target, t_lock, t_on, s_pc, s_cmd, s_k, s_r, s_bak,
              res, rspsize, ncmds, updi_connected, ct_early>>

sessVars == <<PGCONF, Command_Table, jtag_hvctrl, target, t_lock, t_on, s_pc,
              s_cmd, s_k, s_r, s_bak, res, rspsize, ncmds, updi_connected,
              ct_early>>

cmdVars == <<xclk, usart, jtag_arch, tcb0, t_pc, t_func, t_fail, t_result,
             op_ret, t_retried, t_hist>>

frameVars == <<rawData, packet_length, packet_fragment, packet_chunks,
               packet_endfrag, ep_dpo, dap_out, dap_in, main_pc,
               msgDone, msgFrags, rsp, rspValid, served, npkts>>

vars == <<frameVars, cmdVars, sessVars, nvmVars>>

(***************************************************************************)
(* The payload bytes of a report: dap_data[4 + i].  Bytes past the end of  *)
(* dap_data belong to whatever follows it in EP_MEM.                       *)
(***************************************************************************)
Payload(pat, i) == IF i < DapDataLen - 4 THEN (pat + i) % 256 ELSE Unknown

NoReport == [cmd |-> 0, frag |-> 0, endf |-> 0, size |-> 0, pat |-> 0]
NoReply  == [b1 |-> 0, b3 |-> 0, data |-> <<>>]

(***************************************************************************)
(* memcpy(&packet.rawData[_ofst], &dap_data[4], _size), 16 bit addresses.  *)
(***************************************************************************)
CopyIn(buf, ofst, pat, size) ==
  [k \in 0..(RawDataLen - 1) |->
     IF (k - ofst) % 65536 < size THEN Payload(pat, (k - ofst) % 65536) ELSE buf[k]]

\* the copy reaches bytes that are not in packet.rawData
CopyOverflows(ofst, size) ==
  size > 0 /\ (ofst >= RawDataLen \/ ofst + size > RawDataLen)

ReadRaw(buf, k) == IF k >= 0 /\ k < RawDataLen THEN buf[k] ELSE Unknown

FragOffset(frag) == U16((frag - 1) * ChunkLen)

TooManyFragments_Eleven(endf) == endf > EndfLimit

TooManyFragments(endf) == endf >= EndfLimit

(***************************************************************************)
(* JTAG::dap_command_check, _cmd == 0x80, _endf >= 10.                     *)
(***************************************************************************)
CheckCmdRefuse ==
  /\ dap_out.cmd = EDBG_CMD
  /\ TooManyFragments(dap_out.endf)
  /\ dap_in' = [b1 |-> 0, b3 |-> dap_out.size, data |-> <<>>]   \* EDBG_RSP_FAIL
  /\ main_pc' = "poll"
  /\ UNCHANGED <<rawData, packet_length, packet_fragment, packet_chunks,
                 packet_endfrag, msgDone, msgFrags, served, rspValid>>

(***************************************************************************)
(* JTAG::dap_command_check, _cmd == 0x80, _endf < 10.  hc and he are the   *)
(* values an overflowing memcpy leaves in _packet_chunks and               *)
(* _packet_endfrag, which follow packet in .noinit.                        *)
(***************************************************************************)
CheckCmdCopy(hc, he) ==
  /\ dap_out.cmd = EDBG_CMD
  /\ ~TooManyFragments(dap_out.endf)
  /\ LET endf    == dap_out.endf
         frag    == dap_out.frag
         size    == dap_out.size
         ofst    == FragOffset(frag)
         ovf     == CopyOverflows(ofst, size)
         chunks1 == U8((IF frag = 1 THEN 0 ELSE packet_chunks) + 1)
         chunks2 == IF ovf THEN hc ELSE chunks1
         endfr1  == IF ovf THEN he ELSE packet_endfrag
         last    == (endf = frag)
         ok      == last /\ chunks2 = endf
         frg     == [frag |-> frag, size |-> size, pat |-> dap_out.pat]
     IN /\ rawData' = CopyIn(rawData, ofst, dap_out.pat, size)
        /\ packet_chunks' = chunks2
        /\ packet_length' = IF last THEN U16(ofst + size) ELSE packet_length
        /\ packet_endfrag' = IF ok THEN 0 ELSE endfr1
        /\ dap_in' = [b1 |-> IF last /\ ~ok THEN 0 ELSE 1,
                      b3 |-> size, data |-> <<>>]
        /\ main_pc' = IF ok THEN "branch" ELSE "poll"
        /\ msgDone' = last
        /\ msgFrags' = IF frag = 1 \/ msgDone THEN <<frg>> ELSE Append(msgFrags, frg)
  /\ rspValid' = FALSE
  /\ UNCHANGED <<packet_fragment, served>>

(***************************************************************************)
(* JTAG::dap_command_check, _cmd == 0x81.                                  *)
(***************************************************************************)
NextFragment == U8(packet_fragment + 1)

ServedSize == IF NextFragment = packet_endfrag THEN U8(packet_length) ELSE ChunkLen

CheckRspEmpty ==
  /\ dap_out.cmd = EDBG_RSP
  /\ packet_endfrag = 0
  /\ dap_in' = [b1 |-> 0, b3 |-> 0, data |-> <<>>]
  /\ main_pc' = "poll"
  /\ UNCHANGED <<rawData, packet_length, packet_fragment, packet_chunks,
                 packet_endfrag, msgDone, msgFrags, served, rspValid>>

CheckRspServe ==
  /\ dap_out.cmd = EDBG_RSP
  /\ packet_endfrag # 0
  /\ dap_in' = [b1 |-> BitOr(U8(NextFragment * 16), packet_endfrag),
                b3 |-> ServedSize,
                data |-> [i \in 1..ChunkLen |->
                   ReadRaw(rawData, TokenOfs + packet_fragment * ChunkLen + i - 1)]]
  /\ packet_fragment' = NextFragment
  /\ packet_length' = U16(packet_length - ChunkLen)
  /\ served' = Append(served, dap_in')
  /\ main_pc' = "poll"
  /\ UNCHANGED <<rawData, packet_chunks, packet_endfrag, msgDone, msgFrags,
                 rspValid>>

(***************************************************************************)
(* JTAG::dap_command_check, a DAP standard command.                        *)
(***************************************************************************)
CheckOther ==
  /\ dap_out.cmd # EDBG_CMD
  /\ dap_out.cmd # EDBG_RSP
  /\ dap_in' = [b1 |-> 0, b3 |-> 0, data |-> <<>>]
  /\ main_pc' = "poll"
  /\ UNCHANGED <<rawData, packet_length, packet_fragment, packet_chunks,
                 packet_endfrag, msgDone, msgFrags, served, rspValid>>

(***************************************************************************)
(* JTAG::complete_jtag_transactions(_length).                              *)
(***************************************************************************)
CompleteLength(L)  == U16(L + RspOverhead)
CompleteEndfrag(L) == U8(U16(L + EndfRound) \div ChunkLen)
CompleteRaw(buf, L) ==
  [k \in 0..(RawDataLen - 1) |->
     IF k = CompleteLength(L) THEN 0
     ELSE IF k = TokenOfs THEN TOKEN
     ELSE buf[k]]

(***************************************************************************)
(* What JTAG::jtag_scope_branch leaves in the buffer in SpecFrame: a       *)
(* response of _rspsize = L bytes, written over the command.               *)
(***************************************************************************)
ScopeResponse(buf, L, rpat) ==
  [k \in 0..(RawDataLen - 1) |->
     IF k >= DataOfs /\ k < DataOfs + L + 1 THEN (rpat + k) % 256 ELSE buf[k]]

(***************************************************************************)
(* The host writes one HID report into EP_MEM.dap_data (EP_DPO armed).     *)
(***************************************************************************)
HostFragment(f) ==
  /\ ep_dpo = "listen"
  /\ npkts < MaxPkts
  /\ ep_dpo' = "busnak"
  /\ dap_out' = f
  /\ npkts' = npkts + 1
  /\ UNCHANGED <<rawData, packet_length, packet_fragment, packet_chunks,
                 packet_endfrag, dap_in, main_pc, msgDone, msgFrags, rsp,
                 rspValid, served>>

HostRequest(cmd) ==
  /\ ep_dpo = "listen"
  /\ npkts < MaxPkts
  /\ ep_dpo' = "busnak"
  /\ dap_out' = [NoReport EXCEPT !.cmd = cmd]
  /\ npkts' = npkts + 1
  /\ UNCHANGED <<rawData, packet_length, packet_fragment, packet_chunks,
                 packet_endfrag, dap_in, main_pc, msgDone, msgFrags, rsp,
                 rspValid, served>>

(***************************************************************************)
(* main: a report is pending, dap_command_check handles it and re-arms the *)
(* endpoints (USB::complete_dap_out).                                      *)
(***************************************************************************)
MainDapCheck ==
  /\ main_pc = "poll"
  /\ ep_dpo = "busnak"
  /\ \/ CheckCmdRefuse
     \/ \E hc \in Havoc8, he \in Havoc8 : CheckCmdCopy(hc, he)
     \/ CheckRspEmpty
     \/ CheckRspServe
     \/ CheckOther
  /\ ep_dpo' = "listen"
  /\ UNCHANGED <<dap_out, rsp, npkts>>

(***************************************************************************)
(* main: jtag_scope_branch, ending in complete_jtag_transactions.          *)
(***************************************************************************)
MainScopeBranch(L, rpat) ==
  /\ main_pc = "branch"
  /\ LET raw1 == CompleteRaw(ScopeResponse(rawData, L, rpat), L)
     IN /\ rawData' = raw1
        /\ rsp' = [i \in 1..(L + RspOverhead) |-> raw1[TokenOfs + i - 1]]
  /\ packet_length' = CompleteLength(L)
  /\ packet_fragment' = 0
  /\ packet_endfrag' = CompleteEndfrag(L)
  /\ rspValid' = TRUE
  /\ served' = <<>>
  /\ main_pc' = "poll"
  /\ UNCHANGED <<packet_chunks, ep_dpo, dap_out, dap_in, msgDone, msgFrags, npkts>>

(***************************************************************************)
(* The timeout supervisor is not running: main.cpp setup.                  *)
(***************************************************************************)
CmdIdle ==
  /\ xclk = XclkDefault
  /\ usart = "off"
  /\ jtag_arch = ARCH_UPDI
  /\ tcb0 = FALSE
  /\ t_pc = "idle"
  /\ t_func = "none"
  /\ t_fail = "none"
  /\ t_result = 0
  /\ op_ret = NoValue
  /\ t_retried = FALSE
  /\ t_hist = NoHist

(***************************************************************************)
(* The dispatcher is not part of the framing's and the supervisor's        *)
(* specifications.                                                         *)
(***************************************************************************)
Cmd(scope, cmd, section, index, data) ==
  [scope |-> scope, cmd |-> cmd, section |-> section, index |-> index,
   data |-> data]

NoCmd == Cmd(0, 0, 0, 0, 0)

NoTarget == [kind |-> "none", nvm |-> 0, lock |-> FALSE]

SessQuiet ==
  /\ jtag_hvctrl = FALSE
  /\ target = NoTarget
  /\ t_lock = FALSE
  /\ t_on = FALSE
  /\ s_pc = "idle"
  /\ s_cmd = NoCmd
  /\ s_k = "none"
  /\ s_r = 0
  /\ s_bak = 0
  /\ res = 0
  /\ rspsize = 0
  /\ ncmds = 0
  /\ updi_connected = FALSE
  /\ ct_early = "none"

SessParked ==
  /\ PGCONF = {}
  /\ Command_Table = "noinit"
  /\ SessQuiet

(***************************************************************************)
(* The memory commands are not part of the other specifications.           *)
(***************************************************************************)
MemCmd(kind, m_type, addr, len) ==
  [kind |-> kind, m_type |-> m_type, addr |-> addr, len |-> len, pg |-> PGCONF]

\* the answer (packet.in.res, _rspsize, the first bytes of packet.in.data) and
\* the traffic of a memory command: bytes written to the target, a read of
\* the target, page erases, and the address a flash write went to
MemOut(r, size, data, sent, read, erases, at) ==
  [res |-> r, size |-> size, data |-> data, sent |-> sent, read |-> read,
   erases |-> erases, at |-> at]

NoSib == <<0, 0>>

NoArch == Unknown

\* GPCONF = 0 and the zeroed _set_line_encoding that main() starts with
VcpParked ==
  /\ gp_vcp = FALSE
  /\ gp_brk = FALSE
  /\ line_enc = 0
  /\ gp_usb = FALSE
  /\ gp_fal = FALSE
  /\ gp_ris = FALSE
  /\ usb_addr = FALSE
  /\ dtr = FALSE
  /\ trst = "high"
  /\ wdt = TRUE
  /\ h_sw0 = "none"
  /\ h_boot = "none"

DescLen == 2

\* Device_Descriptor is not looked at outside SpecDesc
DescParked ==
  /\ dev_desc = [i \in 1 .. DescLen |-> 0]
  /\ h_cur = {}
  /\ h_old = [i \in 1 .. DescLen |-> NoValue]

\* a memory transfer: where it starts, how many bytes the target takes or
\* gives for it, and how many the programmer sends or waits for
Xfer(ptr, units, count) == [ptr |-> ptr, units |-> units, count |-> count]

NoXfer == Xfer(0, 0, 0)

\* the round trip is not looked at outside SpecRt
NoWrite ==
  [m_type |-> 0, addr |-> 0, len |-> 0, pat |-> 0, x |-> NoXfer, res |-> 0]

NoRead ==
  [m_type |-> 0, addr |-> 0, len |-> 0, x |-> NoXfer, res |-> 0, size |-> 0]

RtParked ==
  /\ rt_pc = "host"
  /\ rt_w = NoWrite
  /\ rt_mem = NoXfer
  /\ rt_r = NoRead

\* UPDI::send_bytes is not looked at outside SpecSend
SendParked ==
  /\ sb_data = <<>>
  /\ sb_echo = <<>>
  /\ sb_sent = 0
  /\ sb_ret = NoValue

\* the time UPDI::connect takes is not looked at outside SpecBudget
BudgetParked ==
  /\ cb_pc = "idle"
  /\ cb_r = 0
  /\ cb_t = 0
  /\ cb_hv = FALSE
  /\ cb_ret = NoValue

NoProgHist == [key |-> FALSE, seen |-> FALSE, clear |-> FALSE, init |-> FALSE]

\* UPDI::enter_progmode is not looked at step by step outside SpecProg
ProgParked ==
  /\ ep_pc = "idle"
  /\ ep_rx = 0
  /\ ep_lock = FALSE
  /\ ep_prog = FALSE
  /\ ep_h = NoProgHist
  /\ ep_ret = NoValue

\* the block writes are not looked at step by step outside SpecBlock
BlockParked ==
  /\ bw_func = "none"
  /\ bw_len = 0
  /\ bw_log = <<>>
  /\ bw_rsd = FALSE
  /\ bw_ret = NoValue

NoLenIn == [frag |-> 0, endf |-> 0, size |-> 0, m_type |-> 0, addr |-> 0,
            len |-> 0, prog |-> FALSE, sib0 |-> 0]
NoLenRsp == [size |-> 0, length |-> 0, endfrag |-> 0]

\* the extents of the stores are not looked at outside SpecLen
LenParked ==
  /\ ln_op = "none"
  /\ ln_in = NoLenIn
  /\ ln_writes = {}
  /\ ln_rsp = NoLenRsp

RestParked == RtParked /\ SendParked /\ BudgetParked /\ ProgParked /\ BlockParked /\ LenParked

\* what each of the small specifications leaves alone
notRt     == <<sendVars, budgetVars, progVars, blockVars, lenVars>>
notSend   == <<rtVars, budgetVars, progVars, blockVars, lenVars>>
notBudget == <<rtVars, sendVars, progVars, blockVars, lenVars>>
notProg == <<rtVars, sendVars, budgetVars, blockVars, lenVars>>
notBlock == <<rtVars, sendVars, budgetVars, progVars, lenVars>>
notLen == <<rtVars, sendVars, budgetVars, progVars, blockVars>>

NotSendParked   == RtParked /\ BudgetParked /\ ProgParked /\ BlockParked /\ LenParked
NotBudgetParked == RtParked /\ SendParked /\ ProgParked /\ BlockParked /\ LenParked
NotProgParked == RtParked /\ SendParked /\ BudgetParked /\ BlockParked /\ LenParked
NotBlockParked == RtParked /\ SendParked /\ BudgetParked /\ ProgParked /\ LenParked
NotLenParked == RtParked /\ SendParked /\ BudgetParked /\ ProgParked /\ BlockParked

NvmQuiet ==
  /\ DescParked
  /\ before_page = NoPage
  /\ sib = NoSib
  /\ n_cmd = [kind |-> "none", m_type |-> 0, addr |-> 0, len |-> 0, pg |-> {}]
  /\ n_out = MemOut(0, 0, <<>>, FALSE, FALSE, 0, NoPage)
  /\ n_prev = NoPage
  /\ n_last = NoPage
  /\ n_cmds = 0
  /\ tpi_chunks = 0
  /\ vtarget = 0
  /\ v_enter = 0
  /\ n_own = {}
  /\ h_arch = NoArch
  /\ VcpParked

NvmParked ==
  /\ RestParked
  /\ NvmQuiet

(***************************************************************************)
(* The transport framing is not part of the other specifications.          *)
(***************************************************************************)
FrameParked ==
  /\ rawData = <<>>
  /\ packet_length = 0
  /\ packet_fragment = 0
  /\ packet_chunks = 0
  /\ packet_endfrag = 0
  /\ ep_dpo = "listen"
  /\ dap_out = NoReport
  /\ dap_in = NoReply
  /\ main_pc = "poll"
  /\ msgDone = FALSE
  /\ msgFrags = <<>>
  /\ rsp = <<>>
  /\ rspValid = FALSE
  /\ served = <<>>
  /\ npkts = 0

InitFrame ==
  /\ rawData = [k \in 0..(RawDataLen - 1) |-> Stale]
  /\ packet_length = 0
  /\ packet_fragment = 0
  /\ packet_chunks \in NoInitChunks
  /\ packet_endfrag \in NoInitEndfrag
  /\ ep_dpo = "listen"
  /\ dap_out = NoReport
  /\ dap_in = NoReply
  /\ main_pc = "poll"
  /\ msgDone = FALSE
  /\ msgFrags = <<>>
  /\ rsp = <<>>
  /\ rspValid = FALSE
  /\ served = <<>>
  /\ npkts = 0
  /\ CmdIdle
  /\ SessParked
  /\ NvmParked

NextFrame ==
  /\ \/ \E f \in HostFrags : HostFragment(f)
     \/ \E cmd \in {EDBG_RSP, DAP_OTHER} : HostRequest(cmd)
     \/ MainDapCheck
     \/ \E L \in RspLens, rpat \in RspPats : MainScopeBranch(L, rpat)
  /\ UNCHANGED <<cmdVars, sessVars, nvmVars>>

SpecFrame == InitFrame /\ [][NextFrame]_vars

(***************************************************************************)
(* UPDI::timeout_fallback and PDI::timeout_fallback: the clock they leave, *)
(* the USART mode they leave, and what they return.  echo: the bytes       *)
(* clear_rsd sent were read back unchanged.                                *)
(***************************************************************************)
AtFloor_Never(x, floor) == FALSE

AtFloor(x, floor) == x = floor

Lowered_Kept(x, step, floor) == x

Lowered(x, step, floor) ==
  IF U16(x - step) < floor THEN floor ELSE U16(x - step)

UPDI_fallback_xclk(x) ==
  IF AtFloor(x, UPDI_FLOOR) THEN x ELSE Lowered(x, UPDI_STEP, UPDI_FLOOR)

UPDI_fallback_ret(x, echo) ==
  IF AtFloor(x, UPDI_FLOOR) THEN 0 ELSE IF echo THEN 1 ELSE 0

PDI_fallback_xclk(x) ==
  IF AtFloor(x, PDI_FLOOR) THEN x ELSE Lowered(x, PDI_STEP, PDI_FLOOR)

PDI_fallback_ret(x) == IF AtFloor(x, PDI_FLOOR) THEN 0 ELSE 1

Floor(fail) == IF fail = "UPDI" THEN UPDI_FLOOR ELSE PDI_FLOOR

(***************************************************************************)
(* Timeout::command: while (_result == 0), setjmp, Timeout::start.         *)
(***************************************************************************)
Timeout_command_loop ==
  /\ t_pc = "loop"
  /\ IF t_result = 0
     THEN tcb0' = TRUE /\ t_pc' = "op"
     ELSE tcb0' = tcb0 /\ t_pc' = "ret"
  /\ UNCHANGED <<xclk, usart, jtag_arch, t_func, t_fail, t_result, op_ret, t_retried, t_hist>>

\* Timeout::stop after (*func_p)() returned, and break
Timeout_stop_Keep == tcb0

Timeout_stop == FALSE

Timeout_command_stop ==
  /\ t_pc = "stop"
  /\ tcb0' = Timeout_stop
  /\ t_pc' = "ret"
  /\ UNCHANGED <<xclk, usart, jtag_arch, t_func, t_fail, t_result, op_ret, t_retried, t_hist>>

TCB0_ISR_Never == FALSE /\ UNCHANGED cmdVars

\* ISR(TCB0_INT_vect): the deadline elapsed; longjmp(TIMEOUT_CONTEXT, 2)
TCB0_ISR ==
  /\ tcb0
  /\ tcb0' = FALSE
  /\ t_pc' = "expired"
  /\ UNCHANGED <<xclk, usart, jtag_arch, t_func, t_fail, t_result, op_ret, t_retried>>

Fallbacks_Twice(fail) == IF fail = "none" THEN 0 ELSE 2

\* if (!fail_p) break; wdt_reset(); if (!(*fail_p)()) break;
Fallbacks(fail) == IF fail = "none" THEN 0 ELSE 1

\* the history of a deadline that elapsed, and of the pass through the
\* fallback that follows it
Elapses ==
  t_hist' = [t_hist EXCEPT !.elapsed = Capped(@ + 1), !.owed = @ + 1]

FallsBack ==
  t_hist' = [t_hist EXCEPT !.fallbacks = Capped(@ + Fallbacks(t_fail)),
                           !.owed = @ - Fallbacks(t_fail)]

\* setjmp returned 2: Timeout::stop, then the fallback if there is one
Timeout_command_expired(echo) ==
  /\ t_pc = "expired"
  /\ tcb0' = Timeout_stop
  /\ IF t_fail = "UPDI"
     THEN /\ xclk' = UPDI_fallback_xclk(xclk)
          /\ usart' = IF AtFloor(xclk, UPDI_FLOOR) THEN usart ELSE "updi"
          /\ t_pc' = IF UPDI_fallback_ret(xclk, echo) = 0 THEN "ret" ELSE "loop"
     ELSE IF t_fail = "PDI"
     THEN /\ xclk' = PDI_fallback_xclk(xclk)
          /\ usart' = IF AtFloor(xclk, PDI_FLOOR) THEN usart ELSE "pdi"
          /\ t_pc' = IF PDI_fallback_ret(xclk) = 0 THEN "ret" ELSE "loop"
     ELSE /\ t_pc' = "ret"
          /\ UNCHANGED <<xclk, usart>>
  /\ t_retried' = (t_retried \/ t_pc' = "loop")
  /\ UNCHANGED <<jtag_arch, t_func, t_fail, t_result, op_ret>>

(***************************************************************************)
(* SpecCmd: a caller of Timeout::command, and an operation that returns v  *)
(* ("value") or polls the target forever ("never").                        *)
(***************************************************************************)
CmdCall(func, fail) ==
  /\ t_pc = "idle"
  /\ t_pc' = "loop"
  /\ t_func' = func
  /\ t_fail' = fail
  /\ t_result' = 0
  /\ op_ret' = NoValue
  /\ t_retried' = FALSE
  /\ t_hist' = NoHist
  /\ UNCHANGED <<xclk, usart, jtag_arch, tcb0>>

CmdOpReturns(v) ==
  /\ t_pc = "op"
  /\ t_func = "value"
  /\ t_result' = v
  /\ op_ret' = v
  /\ t_pc' = "stop"
  /\ UNCHANGED <<xclk, usart, jtag_arch, tcb0, t_func, t_fail, t_retried, t_hist>>

CmdReturn ==
  /\ t_pc = "ret"
  /\ t_pc' = "idle"
  /\ UNCHANGED <<xclk, usart, jtag_arch, tcb0, t_func, t_fail, t_result,
                 op_ret, t_retried, t_hist>>

Engine(arch) == IF arch = ARCH_UPDI THEN "UPDI" ELSE "PDI"

InitCmd ==
  /\ FrameParked
  /\ SessParked
  /\ NvmParked
  /\ xclk \in CmdClocks
  /\ usart = "off"
  /\ jtag_arch \in {ARCH_PDI, ARCH_UPDI}
  /\ tcb0 = FALSE
  /\ t_pc = "idle"
  /\ t_func = "none"
  /\ t_fail = "none"
  /\ t_result = 0
  /\ op_ret = NoValue
  /\ t_retried = FALSE
  /\ t_hist = NoHist

CmdStep ==
  \/ Timeout_command_loop
  \/ Timeout_command_stop
  \/ TCB0_ISR /\ Elapses
  \/ \E echo \in BOOLEAN : Timeout_command_expired(echo) /\ FallsBack
  \/ \E v \in OpValues : CmdOpReturns(v)
  \/ CmdReturn

NextCmd ==
  /\ \/ \E func \in {"value", "never"}, fail \in {"none", Engine(jtag_arch)} :
          CmdCall(func, fail)
     \/ CmdStep
  /\ UNCHANGED <<frameVars, sessVars, nvmVars>>

SpecCmd == InitCmd /\ [][NextCmd]_vars

\* the CPU runs and the timer counts: a step that can be taken is taken
FairSpecCmd == SpecCmd /\ WF_vars(CmdStep /\ UNCHANGED <<frameVars, sessVars, nvmVars>>)

(***************************************************************************)
(* SpecSess: the device on the programming lines and the commands the host *)
(* sends.  A device answers on its own interface once that interface has   *)
(* been enabled and while the USART is in the matching mode.               *)
(***************************************************************************)
Hang == NoValue

Targets ==
  { NoTarget,
    [kind |-> "updi", nvm |-> NVM_V4, lock |-> FALSE],
    [kind |-> "updi", nvm |-> NVM_V4, lock |-> TRUE],
    [kind |-> "updi", nvm |-> NVM_V3, lock |-> FALSE],
    [kind |-> "updi", nvm |-> NvmOther, lock |-> FALSE],
    [kind |-> "pdi", nvm |-> 0, lock |-> FALSE],
    [kind |-> "tpi", nvm |-> 0, lock |-> FALSE] }

\* the scopes jtag_scope_branch tests for, a scope it does not test for, and
\* command codes no scope tests for
KnownScopes == {SCOPE_GENERAL, SCOPE_AVR, SCOPE_AVR_TPI, SCOPE_EDBG}

UnknownScopes == {19}

UnknownCmds == {128}

HostCmds ==
  { Cmd(SCOPE_GENERAL, CMD3_SIGN_ON, 0, 0, 0),
    Cmd(SCOPE_AVR, CMD3_SET_PARAMETER, 0, 0, ARCH_UPDI),
    Cmd(SCOPE_AVR, CMD3_SET_PARAMETER, 0, 0, ARCH_PDI),
    Cmd(SCOPE_AVR, CMD3_SIGN_ON, 0, 0, 1),
    Cmd(SCOPE_AVR, CMD3_SIGN_OFF, 0, 0, 0),
    Cmd(SCOPE_AVR, CMD3_ENTER_PROGMODE, 0, 0, 0),
    Cmd(SCOPE_AVR, CMD3_LEAVE_PROGMODE, 0, 0, 0),
    Cmd(SCOPE_AVR, CMD3_ERASE_MEMORY, 0, 0, 0),
    Cmd(SCOPE_AVR, CMD3_READ_MEMORY, 0, 0, 0),
    Cmd(SCOPE_AVR, CMD3_WRITE_MEMORY, 0, 0, 0),
    Cmd(SCOPE_AVR_TPI, XPRG_CMD_ENTER_PROGMODE, 0, 0, 0),
    Cmd(SCOPE_AVR_TPI, XPRG_CMD_LEAVE_PROGMODE, 0, 0, 0),
    Cmd(SCOPE_AVR_TPI, XPRG_CMD_READ_MEM, 0, 0, 0),
    Cmd(SCOPE_AVR_TPI, XPRG_CMD_ERASE, 0, 0, 0),
    Cmd(SCOPE_GENERAL, CMD3_SIGN_OFF, 0, 0, 0),
    Cmd(SCOPE_EDBG, CMD3_SET_PARAMETER, 0, 0, 0) }
  \cup { Cmd(scope, cmd, 0, 0, 0) :
            scope \in KnownScopes \cup UnknownScopes, cmd \in UnknownCmds }

Answers(proto) == target.kind = proto /\ usart = proto /\ t_on

\* SYS::power_reset: the target loses power where the board switches it
PowerReset(on) == {on, FALSE}

\* read_sib: the NVM variant it binds for _sib[10]
NvmVariant(ch) ==
  CASE ch = 53 -> "V5"
    [] ch = NVM_V4 -> "V4"
    [] ch = NVM_V3 -> "V3"
    [] ch = 50 -> "V2"
    [] ch = 48 -> "V0"
    [] OTHER -> "none"

\* ct_early after a call made through Command_Table
Early(tab) == IF updi_connected THEN ct_early ELSE tab

\* the host's packet is complete: complete_dap_out, dap_command_check.  It
\* lies in the buffer the response lay in (packet.out and packet.in are one
\* union: packet.in.res lies at packet.out.cmd and the byte after it, which
\* the host sends as 0), and the last command's locals are gone.
HostCommand(c) ==
  /\ s_pc = "idle"
  /\ ncmds < MaxCmds
  /\ s_cmd' = c
  /\ s_pc' = "branch"
  /\ ncmds' = ncmds + 1
  /\ res' = c.cmd
  /\ rspsize' = 0
  /\ s_r' = 0
  /\ UNCHANGED <<PGCONF, Command_Table, jtag_hvctrl, target, t_lock, t_on,
                 s_k, s_bak, updi_connected, ct_early>>
  /\ UNCHANGED <<cmdVars, frameVars>>

\* complete_jtag_transactions(_rspsize) with packet.in.res = r
Reply(size, r) ==
  /\ s_pc' = "idle"
  /\ s_k' = "none"
  /\ rspsize' = size
  /\ res' = r
  /\ t_pc' = "idle"
  /\ t_func' = "none"
  /\ t_fail' = "none"
  /\ t_result' = 0
  /\ op_ret' = NoValue
  /\ t_retried' = FALSE
  /\ t_hist' = NoHist
  /\ s_cmd' = NoCmd
  /\ s_bak' = 0
  /\ UNCHANGED <<tcb0, target, t_lock, ncmds, frameVars>>

\* Timeout::command(func, fail), going on at k when it returns; bak is _bak
\* of UPDI::connect
CallWith(func, fail, k, bak) ==
  /\ s_bak' = bak
  /\ s_pc' = "wait"
  /\ s_k' = k
  /\ t_pc' = "loop"
  /\ t_func' = func
  /\ t_fail' = fail
  /\ t_result' = 0
  /\ op_ret' = NoValue
  /\ t_retried' = FALSE
  /\ t_hist' = NoHist
  /\ UNCHANGED <<tcb0, res, rspsize, target, t_lock, s_cmd, ncmds, frameVars>>

Call(func, fail, k) == CallWith(func, fail, k, s_bak)

\* Timeout::command has returned to the scope function that is at k
Returned(k) == s_pc = "wait" /\ t_pc = "ret" /\ s_k = k

\* (*func_p)() returns out, or is still polling the target at the deadline
\* (out = Hang), having made the changes given.  An operation that polls
\* without having changed anything is the operation not having taken its
\* step when TCB0_ISR fires.
OpStep(func, pg, tab, us, on, lk, ce, out) ==
  /\ s_pc = "wait"
  /\ t_pc = "op"
  /\ t_func = func
  /\ PGCONF' = pg
  /\ Command_Table' = tab
  /\ usart' = us
  /\ t_on' = on
  /\ t_lock' = lk
  /\ ct_early' = ce
  /\ IF out = Hang
     THEN t_pc' = "hung" /\ UNCHANGED <<t_result, op_ret>>
     ELSE t_pc' = "stop" /\ t_result' = out /\ op_ret' = out
  /\ UNCHANGED <<xclk, jtag_arch, tcb0, t_func, t_fail, t_retried, t_hist>>
  /\ UNCHANGED <<jtag_hvctrl, target, s_pc, s_cmd, s_k, s_r, s_bak, res,
                 rspsize, ncmds, updi_connected, frameVars>>

\* (*func_p)() returns out or hangs, changing nothing
OpQuiet(func, out) ==
  OpStep(func, PGCONF, Command_Table, usart, t_on, t_lock, ct_early, out)

(***************************************************************************)
(* JTAG::jtag_scope_general and the parameters of jtag_scope_avr_core.     *)
(***************************************************************************)
jtag_scope_general ==
  /\ s_pc = "branch"
  /\ s_cmd.scope = SCOPE_GENERAL
  /\ IF s_cmd.cmd = CMD3_SIGN_ON
     THEN PGCONF' = {} /\ jtag_hvctrl' = FALSE /\ jtag_arch' = 0
     ELSE UNCHANGED <<PGCONF, jtag_hvctrl, jtag_arch>>
  /\ Reply(0, IF s_cmd.cmd = CMD3_GET_PARAMETER THEN RSP3_DATA
              ELSE IF s_cmd.cmd \in {CMD3_SIGN_ON, CMD3_SIGN_OFF}
              THEN RSP3_OK ELSE res)
  /\ UNCHANGED <<Command_Table, t_on, s_r, updi_connected, ct_early,
                 xclk, usart>>

\* JTAG::jtag_scope_edbg
jtag_scope_edbg ==
  /\ s_pc = "branch"
  /\ s_cmd.scope = SCOPE_EDBG
  /\ Reply(0, IF s_cmd.cmd = CMD3_SET_PARAMETER THEN RSP3_OK
              ELSE IF s_cmd.cmd = CMD3_GET_PARAMETER THEN RSP3_DATA
              ELSE res)
  /\ UNCHANGED <<PGCONF, Command_Table, jtag_hvctrl, t_on, s_r,
                 updi_connected, ct_early, xclk, usart, jtag_arch>>

\* JTAG::jtag_scope_branch for a scope it has no branch for
jtag_scope_branch ==
  /\ s_pc = "branch"
  /\ s_cmd.scope \notin KnownScopes
  /\ Reply(0, res)
  /\ UNCHANGED <<PGCONF, Command_Table, jtag_hvctrl, t_on, s_r,
                 updi_connected, ct_early, xclk, usart, jtag_arch>>

AVR_SET_PARAMETER ==
  /\ s_pc = "branch"
  /\ s_cmd.scope = SCOPE_AVR
  /\ s_cmd.cmd = CMD3_SET_PARAMETER
  /\ jtag_arch' = IF s_cmd.section = 0 /\ s_cmd.index = 0
                  THEN s_cmd.data ELSE jtag_arch
  /\ xclk' = IF s_cmd.section = 0 /\ s_cmd.index = 0 THEN XclkDefault
             ELSE IF s_cmd.section = 1 /\ s_cmd.index = PARM3_CLK_XMEGA_PDI
             THEN (IF s_cmd.data < UPDI_FLOOR THEN UPDI_FLOOR ELSE s_cmd.data)
             ELSE xclk
  /\ jtag_hvctrl' = IF s_cmd.section = 3
                       /\ s_cmd.index = PARM3_OPT_12V_UPDI_ENABLE
                    THEN s_cmd.data # 0 ELSE jtag_hvctrl
  /\ Reply(0, RSP3_OK)
  /\ UNCHANGED <<PGCONF, Command_Table, t_on, s_r, updi_connected,
                 ct_early, usart>>

\* the commands jtag_scope_updi and jtag_scope_xmega test for
EngineCmds ==
  {CMD3_SIGN_ON, CMD3_SIGN_OFF, CMD3_ENTER_PROGMODE, CMD3_LEAVE_PROGMODE,
   CMD3_ERASE_MEMORY, CMD3_READ_MEMORY, CMD3_WRITE_MEMORY}

\* a command of the AVR scope that goes to the engine _jtag_arch selects
ToEngine(arch) ==
  /\ s_pc = "branch"
  /\ s_cmd.scope = SCOPE_AVR
  /\ s_cmd.cmd # CMD3_SET_PARAMETER
  /\ jtag_arch = arch

AVR_no_engine ==
  /\ s_pc = "branch"
  /\ s_cmd.scope = SCOPE_AVR
  /\ s_cmd.cmd # CMD3_SET_PARAMETER
  /\ jtag_arch \notin {ARCH_PDI, ARCH_UPDI}
  /\ Reply(0, RSP3_FAILED)
  /\ UNCHANGED <<PGCONF, Command_Table, jtag_hvctrl, t_on, s_r,
                 updi_connected, ct_early, xclk, usart, jtag_arch>>

(***************************************************************************)
(* The UPDI engine: the operations Timeout::command supervises.            *)
(***************************************************************************)
UPDI_updi_activate ==
  \E out \in (IF target.kind = "updi" THEN {1} ELSE {0, Hang}) :
    OpStep("updi_activate", PGCONF, Command_Table, "updi",
           t_on \/ target.kind = "updi", t_lock, ct_early, out)

\* read_sib returning 5 without the link bit
UPDI_read_sib_Unlinked ==
  /\ Answers("updi")
  /\ NvmVariant(target.nvm) # "none"
  /\ OpStep("read_sib", PGCONF, NvmVariant(target.nvm),
            usart, t_on, t_lock, ct_early, SIB_LEN)

\* the SIB arrives and names a known NVM version: the variant is bound, the
\* link bit set and 5 returned, unless the deadline comes first
UPDI_read_sib_bound ==
  /\ Answers("updi")
  /\ NvmVariant(target.nvm) # "none"
  /\ \/ OpStep("read_sib", PGCONF \cup {"UPDI"}, NvmVariant(target.nvm),
               usart, t_on, t_lock, ct_early, SIB_LEN)
     \/ OpStep("read_sib", PGCONF \cup {"UPDI"}, NvmVariant(target.nvm),
               usart, t_on, t_lock, ct_early, Hang)
     \/ OpStep("read_sib", PGCONF, NvmVariant(target.nvm),
               usart, t_on, t_lock, ct_early, Hang)

UPDI_read_sib_failed ==
  /\ ~(Answers("updi") /\ NvmVariant(target.nvm) # "none")
  /\ OpQuiet("read_sib", 0)

\* sys_reset(true): SYSRST, SYSRUN, UPDIDIS
UPDI_disconnect ==
  OpStep("updi_disconnect", PGCONF, Command_Table, usart,
         t_on /\ ~Answers("updi"), t_lock, ct_early,
         IF usart = "updi" THEN 1 ELSE 0)

UPDI_enter_progmode ==
  IF "PROG" \in PGCONF
  THEN OpQuiet("updi_enter_progmode", 1)
  ELSE IF ~Answers("updi")
  THEN OpQuiet("updi_enter_progmode", 0)
  ELSE IF t_lock
  THEN OpQuiet("updi_enter_progmode", 1)
  ELSE \E out \in (IF Command_Table = "noinit" THEN {1, Hang} ELSE {1}) :
         OpStep("updi_enter_progmode", PGCONF \cup {"PROG"}, Command_Table,
                usart, t_on, t_lock, Early(Command_Table), out)

\* what a function of Command_Table returns: anything through an unbound
\* pointer, 0 from the NVM::V1 stub, and from a variant what the target lets
\* it return
TableOutcomes ==
  IF Command_Table = "noinit" THEN {0, 1, Hang}
  ELSE IF Command_Table = "V1" THEN {0}
  ELSE IF Answers("updi") THEN {1}
  ELSE {0, Hang}

\* Command_Table.erase_memory, e_type 0: UPDI::chip_erase
UPDI_erase_memory ==
  \E out \in TableOutcomes :
    IF Command_Table \notin {"noinit", "V1"} /\ out = 1
    THEN OpStep("erase_memory", PGCONF \cup {"ERSE", "PROG"}, Command_Table,
                usart, t_on, FALSE, Early(Command_Table), out)
    ELSE OpStep("erase_memory", PGCONF, Command_Table, usart, t_on, t_lock,
                Early(Command_Table), out)

\* Command_Table.read_memory and Command_Table.write_memory
UPDI_memory(func) ==
  \E out \in TableOutcomes :
    OpStep(func, PGCONF, Command_Table, usart, t_on, t_lock,
           Early(Command_Table), out)

(***************************************************************************)
(* UPDI::jtag_scope_updi and UPDI::connect.                                *)
(***************************************************************************)
UPDI_connect ==
  /\ ToEngine(ARCH_UPDI)
  /\ s_cmd.cmd = CMD3_SIGN_ON
  /\ PGCONF' = IF s_cmd.data # 0 /\ jtag_hvctrl THEN {"HVEN"} ELSE {}
  /\ Command_Table' = "V1"
  /\ usart' = "off"
  /\ t_on' \in PowerReset(t_on)
  /\ s_r' = 0
  /\ CallWith("updi_activate", "none", "connect_activate", xclk)
  /\ UNCHANGED <<jtag_hvctrl, updi_connected, ct_early, xclk, jtag_arch>>

UPDI_connect_read_sib ==
  /\ Returned("connect_activate")
  /\ t_result # 0
  /\ Call("read_sib", "none", "connect_sib")
  /\ UNCHANGED <<PGCONF, Command_Table, jtag_hvctrl, t_on, s_r,
                 updi_connected, ct_early, xclk, usart, jtag_arch>>

UPDI_connect_done ==
  /\ Returned("connect_sib")
  /\ t_result # 0
  /\ updi_connected' = TRUE
  /\ Reply(t_result, RSP3_DATA)
  /\ UNCHANGED <<PGCONF, Command_Table, jtag_hvctrl, t_on, s_r,
                 ct_early, xclk, usart, jtag_arch>>

\* the attempt failed: lower the clock and try again, _r < 4 times in all
UPDI_connect_retry ==
  /\ Returned("connect_activate") \/ Returned("connect_sib")
  /\ t_result = 0
  /\ s_r' = s_r + 1
  /\ usart' = "off"
  /\ IF s_r + 1 < ConnectRetries
     THEN /\ xclk' = Lowered(xclk, UPDI_STEP, UPDI_FLOOR)
          /\ Call("updi_activate", "none", "connect_activate")
     ELSE /\ xclk' = IF jtag_hvctrl THEN s_bak
                     ELSE Lowered(xclk, UPDI_STEP, UPDI_FLOOR)
          /\ Reply(0, RSP3_FAILED)
  /\ UNCHANGED <<PGCONF, Command_Table, jtag_hvctrl, t_on,
                 updi_connected, ct_early, jtag_arch>>

UPDI_SIGN_OFF ==
  /\ ToEngine(ARCH_UPDI)
  /\ s_cmd.cmd = CMD3_SIGN_OFF
  /\ "UPDI" \in PGCONF
  /\ Call("updi_disconnect", "none", "sign_off")
  /\ UNCHANGED <<PGCONF, Command_Table, jtag_hvctrl, t_on, s_r,
                 updi_connected, ct_early, xclk, usart, jtag_arch>>

UPDI_SIGN_OFF_end ==
  /\ \/ ToEngine(ARCH_UPDI) /\ s_cmd.cmd = CMD3_SIGN_OFF /\ "UPDI" \notin PGCONF
     \/ Returned("sign_off")
  /\ PGCONF' = {}
  /\ usart' = "vcp"
  /\ t_on' \in PowerReset(t_on)
  /\ IF s_pc = "wait" /\ t_result = 0
     THEN Reply(0, RSP3_FAILED)
     ELSE Reply(1, RSP3_OK)
  /\ UNCHANGED <<Command_Table, jtag_hvctrl, s_r, updi_connected,
                 ct_early, xclk, jtag_arch>>

UPDI_ENTER_PROGMODE ==
  /\ ToEngine(ARCH_UPDI)
  /\ s_cmd.cmd = CMD3_ENTER_PROGMODE
  /\ Call("updi_enter_progmode", "UPDI", "enter_progmode")
  /\ UNCHANGED <<PGCONF, Command_Table, jtag_hvctrl, t_on, s_r,
                 updi_connected, ct_early, xclk, usart, jtag_arch>>

UPDI_ENTER_PROGMODE_end ==
  /\ Returned("enter_progmode")
  /\ IF t_result # 0 \/ "UPDI" \in PGCONF
     THEN Reply(1, RSP3_OK)
     ELSE Reply(0, RSP3_FAILED)
  /\ UNCHANGED <<PGCONF, Command_Table, jtag_hvctrl, t_on, s_r,
                 updi_connected, ct_early, xclk, usart, jtag_arch>>

UPDI_LEAVE_PROGMODE ==
  /\ ToEngine(ARCH_UPDI)
  /\ s_cmd.cmd = CMD3_LEAVE_PROGMODE
  /\ Reply(1, RSP3_OK)
  /\ UNCHANGED <<PGCONF, Command_Table, jtag_hvctrl, t_on, s_r,
                 updi_connected, ct_early, xclk, usart, jtag_arch>>

UPDI_ERASE_MEMORY ==
  /\ ToEngine(ARCH_UPDI)
  /\ s_cmd.cmd = CMD3_ERASE_MEMORY
  /\ Call("erase_memory", "UPDI", "finish")
  /\ UNCHANGED <<PGCONF, Command_Table, jtag_hvctrl, t_on, s_r,
                 updi_connected, ct_early, xclk, usart, jtag_arch>>

\* else if (bit_is_clear(PGCONF, PGCONF_UPDI_bp)) { /* empty */ }
UPDI_no_link ==
  /\ ToEngine(ARCH_UPDI)
  /\ \/ s_cmd.cmd \in {CMD3_READ_MEMORY, CMD3_WRITE_MEMORY}
        /\ "UPDI" \notin PGCONF
     \/ s_cmd.cmd \notin EngineCmds
  /\ Reply(0, RSP3_FAILED)
  /\ UNCHANGED <<PGCONF, Command_Table, jtag_hvctrl, t_on, s_r,
                 updi_connected, ct_early, xclk, usart, jtag_arch>>

UPDI_READ_MEMORY ==
  /\ ToEngine(ARCH_UPDI)
  /\ s_cmd.cmd = CMD3_READ_MEMORY
  /\ "UPDI" \in PGCONF
  /\ IF "PROG" \in PGCONF
     THEN Call("read_memory", "UPDI", "finish_read")
     ELSE Reply(1, RSP3_DATA)
  /\ UNCHANGED <<PGCONF, Command_Table, jtag_hvctrl, t_on, s_r,
                 updi_connected, ct_early, xclk, usart, jtag_arch>>

UPDI_WRITE_MEMORY ==
  /\ ToEngine(ARCH_UPDI)
  /\ s_cmd.cmd = CMD3_WRITE_MEMORY
  /\ "UPDI" \in PGCONF
  /\ Call("write_memory", "UPDI", "finish")
  /\ UNCHANGED <<PGCONF, Command_Table, jtag_hvctrl, t_on, s_r,
                 updi_connected, ct_early, xclk, usart, jtag_arch>>

\* packet.in.res = _rspsize ? RSP3_OK (RSP3_DATA for a read) : RSP3_FAILED
UPDI_finish ==
  /\ Returned("finish") \/ Returned("finish_read")
  /\ Reply(t_result, IF t_result = 0 THEN RSP3_FAILED
                     ELSE IF s_k = "finish_read" THEN RSP3_DATA ELSE RSP3_OK)
  /\ UNCHANGED <<PGCONF, Command_Table, jtag_hvctrl, t_on, s_r,
                 updi_connected, ct_early, xclk, usart, jtag_arch>>

(***************************************************************************)
(* The PDI engine: PDI::connect, disconnect, enter_progmode, the memory    *)
(* operations, and PDI::jtag_scope_xmega.                                  *)
(***************************************************************************)
PDI_connect ==
  IF target.kind = "pdi"
  THEN \/ OpStep("pdi_connect", PGCONF \cup {"UPDI"}, Command_Table, "pdi",
                 TRUE, t_lock, ct_early, 1)
       \/ OpStep("pdi_connect", PGCONF, Command_Table, "pdi",
                 TRUE, t_lock, ct_early, Hang)
  ELSE \E out \in {0, Hang} :
         OpStep("pdi_connect", PGCONF, Command_Table, "pdi", t_on, t_lock,
                ct_early, out)

PDI_disconnect ==
  IF "UPDI" \in PGCONF
  THEN OpQuiet("pdi_disconnect", 1)
  ELSE OpStep("pdi_disconnect", PGCONF, Command_Table, usart,
              t_on /\ ~Answers("pdi"), t_lock, ct_early,
              IF usart = "pdi" THEN 1 ELSE 0)

PDI_enter_progmode ==
  IF "PROG" \in PGCONF
  THEN OpQuiet("pdi_enter_progmode", 1)
  ELSE IF Answers("pdi")
  THEN OpStep("pdi_enter_progmode", PGCONF \cup {"PROG"}, Command_Table,
              usart, t_on, t_lock, ct_early, 1)
  ELSE OpQuiet("pdi_enter_progmode", 0)

\* PDI::erase_memory, read_memory, write_memory
PDI_memory ==
  OpQuiet("pdi_memory", IF Answers("pdi") THEN 1 ELSE 0)

PDI_SIGN_ON ==
  /\ ToEngine(ARCH_PDI)
  /\ s_cmd.cmd = CMD3_SIGN_ON
  /\ Call("pdi_connect", "none", "pdi_sign_on")
  /\ UNCHANGED <<PGCONF, Command_Table, jtag_hvctrl, t_on, s_r,
                 updi_connected, ct_early, xclk, usart, jtag_arch>>

PDI_SIGN_OFF ==
  /\ ToEngine(ARCH_PDI)
  /\ s_cmd.cmd = CMD3_SIGN_OFF
  /\ Call("pdi_disconnect", "none", "pdi_sign_off")
  /\ UNCHANGED <<PGCONF, Command_Table, jtag_hvctrl, t_on, s_r,
                 updi_connected, ct_early, xclk, usart, jtag_arch>>

PDI_SIGN_OFF_end ==
  /\ Returned("pdi_sign_off")
  /\ PGCONF' = {}
  /\ usart' = "vcp"
  /\ t_on' \in (IF "PROG" \in PGCONF THEN PowerReset(t_on) ELSE {t_on})
  /\ Reply(t_result, IF t_result = 0 THEN RSP3_FAILED ELSE RSP3_OK)
  /\ UNCHANGED <<Command_Table, jtag_hvctrl, s_r, updi_connected,
                 ct_early, xclk, jtag_arch>>

PDI_ENTER_PROGMODE ==
  /\ ToEngine(ARCH_PDI)
  /\ s_cmd.cmd = CMD3_ENTER_PROGMODE
  /\ Call("pdi_enter_progmode", "PDI", "pdi_enter_progmode")
  /\ UNCHANGED <<PGCONF, Command_Table, jtag_hvctrl, t_on, s_r,
                 updi_connected, ct_early, xclk, usart, jtag_arch>>

PDI_ENTER_PROGMODE_end ==
  /\ Returned("pdi_enter_progmode")
  /\ IF t_result # 0 \/ "UPDI" \in PGCONF
     THEN Reply(1, RSP3_OK)
     ELSE Reply(0, RSP3_FAILED)
  /\ UNCHANGED <<PGCONF, Command_Table, jtag_hvctrl, t_on, s_r,
                 updi_connected, ct_early, xclk, usart, jtag_arch>>

\* LEAVE_PROGMODE, and the memory commands while PROG is clear
PDI_no_operation ==
  /\ ToEngine(ARCH_PDI)
  /\ \/ s_cmd.cmd = CMD3_LEAVE_PROGMODE /\ Reply(1, RSP3_OK)
     \/ /\ s_cmd.cmd \in {CMD3_ERASE_MEMORY, CMD3_READ_MEMORY,
                          CMD3_WRITE_MEMORY}
        /\ "PROG" \notin PGCONF
        /\ Reply(0, RSP3_FAILED)
     \/ s_cmd.cmd \notin EngineCmds /\ Reply(0, RSP3_FAILED)
  /\ UNCHANGED <<PGCONF, Command_Table, jtag_hvctrl, t_on, s_r,
                 updi_connected, ct_early, xclk, usart, jtag_arch>>

PDI_MEMORY ==
  /\ ToEngine(ARCH_PDI)
  /\ s_cmd.cmd \in {CMD3_ERASE_MEMORY, CMD3_READ_MEMORY, CMD3_WRITE_MEMORY}
  /\ "PROG" \in PGCONF
  /\ Call("pdi_memory", "PDI",
          IF s_cmd.cmd = CMD3_READ_MEMORY THEN "pdi_finish_read"
          ELSE "pdi_finish")
  /\ UNCHANGED <<PGCONF, Command_Table, jtag_hvctrl, t_on, s_r,
                 updi_connected, ct_early, xclk, usart, jtag_arch>>

PDI_finish ==
  /\ Returned("pdi_sign_on") \/ Returned("pdi_finish")
       \/ Returned("pdi_finish_read")
  /\ Reply(t_result, IF t_result = 0 THEN RSP3_FAILED
                     ELSE IF s_k = "pdi_finish" THEN RSP3_OK ELSE RSP3_DATA)
  /\ UNCHANGED <<PGCONF, Command_Table, jtag_hvctrl, t_on, s_r,
                 updi_connected, ct_early, xclk, usart, jtag_arch>>

(***************************************************************************)
(* The TPI engine: TPI::connect, the memory operations, and                *)
(* TPI::jtag_scope_tpi.                                                    *)
(***************************************************************************)
TPI_connect ==
  IF target.kind = "tpi"
  THEN \/ OpStep("tpi_connect", {"UPDI", "PROG"}, Command_Table, "tpi",
                 TRUE, t_lock, ct_early, 1)
       \/ OpStep("tpi_connect", {"UPDI"}, Command_Table, "tpi",
                 TRUE, t_lock, ct_early, Hang)
  ELSE \E out \in {0, Hang} :
         OpStep("tpi_connect", {}, Command_Table, "tpi", t_on, t_lock,
                ct_early, out)

\* TPI::read_memory, erase_memory
TPI_memory ==
  OpQuiet("tpi_memory", IF Answers("tpi") THEN 1 ELSE 0)

TPI_ENTER_PROGMODE ==
  /\ s_pc = "branch"
  /\ s_cmd.scope = SCOPE_AVR_TPI
  /\ s_cmd.cmd = XPRG_CMD_ENTER_PROGMODE
  /\ jtag_arch' = 0
  /\ Call("tpi_connect", "none", "tpi_finish")
  /\ UNCHANGED <<PGCONF, Command_Table, jtag_hvctrl, t_on, s_r,
                 updi_connected, ct_early, xclk, usart>>

TPI_LEAVE_PROGMODE ==
  /\ s_pc = "branch"
  /\ s_cmd.scope = SCOPE_AVR_TPI
  /\ s_cmd.cmd = XPRG_CMD_LEAVE_PROGMODE
  /\ PGCONF' = {}
  /\ usart' = "vcp"
  /\ t_on' \in PowerReset(t_on)
  /\ Reply(2, XPRG_ERR_OK)
  /\ UNCHANGED <<Command_Table, jtag_hvctrl, s_r, updi_connected,
                 ct_early, xclk, jtag_arch>>

\* a memory command: refused without the link, and an erase refused when
\* _vtarget < 4500 (vok: it was at least 4500); a command the scope has no
\* branch for leaves _rspsize 0
TPI_MEMORY(vok) ==
  /\ s_pc = "branch"
  /\ s_cmd.scope = SCOPE_AVR_TPI
  /\ s_cmd.cmd \notin {XPRG_CMD_ENTER_PROGMODE, XPRG_CMD_LEAVE_PROGMODE}
  /\ IF /\ s_cmd.cmd \in {XPRG_CMD_READ_MEM, XPRG_CMD_ERASE}
        /\ "UPDI" \in PGCONF
        /\ (s_cmd.cmd = XPRG_CMD_READ_MEM \/ vok)
     THEN Call("tpi_memory", "none", "tpi_finish")
     ELSE Reply(1, XPRG_ERR_FAILED)
  /\ UNCHANGED <<PGCONF, Command_Table, jtag_hvctrl, t_on, s_r,
                 updi_connected, ct_early, xclk, usart, jtag_arch>>

\* tpi_res = _rspsize ? XPRG_ERR_OK : XPRG_ERR_FAILED; return ++_rspsize
TPI_finish ==
  /\ Returned("tpi_finish")
  /\ Reply(t_result + 1, IF t_result = 0 THEN XPRG_ERR_FAILED ELSE XPRG_ERR_OK)
  /\ UNCHANGED <<PGCONF, Command_Table, jtag_hvctrl, t_on, s_r,
                 updi_connected, ct_early, xclk, usart, jtag_arch>>

(***************************************************************************)
(* SpecSess.                                                               *)
(***************************************************************************)
NoInitArch == {0, ARCH_PDI, ARCH_UPDI}     \* power-on values of _jtag_arch

InitSess ==
  /\ FrameParked
  /\ NvmParked
  /\ target \in Targets
  /\ t_lock = target.lock
  /\ t_on = FALSE
  /\ PGCONF = {}
  /\ Command_Table = "noinit"
  /\ jtag_hvctrl \in BOOLEAN
  /\ jtag_arch \in NoInitArch
  /\ xclk = XclkDefault
  /\ usart = "off"
  /\ tcb0 = FALSE
  /\ t_pc = "idle"
  /\ t_func = "none"
  /\ t_fail = "none"
  /\ t_result = 0
  /\ op_ret = NoValue
  /\ t_retried = FALSE
  /\ t_hist = NoHist
  /\ s_pc = "idle"
  /\ s_cmd = NoCmd
  /\ s_k = "none"
  /\ s_r = 0
  /\ s_bak = 0
  /\ res = 0
  /\ rspsize = 0
  /\ ncmds = 0
  /\ updi_connected = FALSE
  /\ ct_early = "none"

\* Timeout::command and the deadline interrupt, inside a scope function
SessTimeout ==
  /\ s_pc = "wait"
  /\ \/ Timeout_command_loop
     \/ Timeout_command_stop
     \/ TCB0_ISR /\ UNCHANGED t_hist
     \/ \E echo \in BOOLEAN : Timeout_command_expired(echo) /\ UNCHANGED t_hist
  /\ UNCHANGED <<frameVars, sessVars>>

SessOperation ==
  \/ UPDI_updi_activate
  \/ UPDI_read_sib_bound
  \/ UPDI_read_sib_failed
  \/ UPDI_disconnect
  \/ UPDI_enter_progmode
  \/ UPDI_erase_memory
  \/ \E func \in {"read_memory", "write_memory"} : UPDI_memory(func)
  \/ PDI_connect
  \/ PDI_disconnect
  \/ PDI_enter_progmode
  \/ PDI_memory
  \/ TPI_connect
  \/ TPI_memory

SessDispatch ==
  \/ jtag_scope_general
  \/ jtag_scope_edbg
  \/ jtag_scope_branch
  \/ AVR_SET_PARAMETER
  \/ AVR_no_engine
  \/ UPDI_connect
  \/ UPDI_connect_read_sib
  \/ UPDI_connect_done
  \/ UPDI_connect_retry
  \/ UPDI_SIGN_OFF
  \/ UPDI_SIGN_OFF_end
  \/ UPDI_ENTER_PROGMODE
  \/ UPDI_ENTER_PROGMODE_end
  \/ UPDI_LEAVE_PROGMODE
  \/ UPDI_ERASE_MEMORY
  \/ UPDI_no_link
  \/ UPDI_READ_MEMORY
  \/ UPDI_WRITE_MEMORY
  \/ UPDI_finish
  \/ PDI_SIGN_ON
  \/ PDI_SIGN_OFF
  \/ PDI_SIGN_OFF_end
  \/ PDI_ENTER_PROGMODE
  \/ PDI_ENTER_PROGMODE_end
  \/ PDI_no_operation
  \/ PDI_MEMORY
  \/ PDI_finish
  \/ TPI_ENTER_PROGMODE
  \/ TPI_LEAVE_PROGMODE
  \/ \E vok \in BOOLEAN : TPI_MEMORY(vok)
  \/ TPI_finish

FirmwareStep == SessTimeout \/ SessOperation \/ SessDispatch

\* USB::handling_bus_events: a bus reset, taken by the main loop between two
\* commands; USB::setup_device(false) with USB0_CTRLA set
USB_setup_device ==
  /\ s_pc = "idle"
  /\ PGCONF' = {}
  /\ UNCHANGED <<sessIdle, Command_Table, cmdVars, frameVars>>

\* h_arch over a step: the command being handled is the general SIGN_ON, or
\* SET_PARAMETER of PARM3_ARCH in SET_GET_CTXT_CONFIG
Selects ==
  /\ h_arch' = IF s_pc # "branch" THEN h_arch
               ELSE IF s_cmd.scope = SCOPE_GENERAL /\ s_cmd.cmd = CMD3_SIGN_ON
               THEN NoArch
               ELSE IF /\ s_cmd.scope = SCOPE_AVR
                       /\ s_cmd.cmd = CMD3_SET_PARAMETER
                       /\ s_cmd.section = 0 /\ s_cmd.index = 0
               THEN s_cmd.data
               ELSE h_arch
  /\ UNCHANGED <<nvmIdle, vcpVars, sysVars, descVars, restVars>>

NextSess ==
  /\ \/ \E c \in HostCmds : HostCommand(c)
     \/ FirmwareStep
     \/ USB_setup_device
  /\ Selects

SpecSess == InitSess /\ [][NextSess]_vars

\* the CPU runs and the timer counts: a step that can be taken is taken
FairSpecSess == SpecSess /\ WF_vars(FirmwareStep /\ Selects)

(***************************************************************************)
(* The UPDI memory commands of a device with NVM controller version 4:     *)
(* the READ, WRITE and ERASE cases of UPDI::jtag_scope_updi with NVM::V4   *)
(* bound, UPDI::write_userrow, UPDI::read_dummy and                        *)
(* SYS::is_boundary_flash_page.  The target answers whenever the link is   *)
(* up, so no deadline passes.                                              *)
(***************************************************************************)
\* Device_Descriptor.UPDI as the host uploaded it (an AVR-DU: pages of 512
\* bytes, USERROW of 512 bytes at 0x1200)
Device_Descriptor ==
  [flash_page_size_msb |-> 2, flash_page_size |-> 0,
   user_sig_bytes |-> 512, user_sig_base |-> 4608]

\* bMType, dwAddr and dwLength of the host's commands; _sib[0] and _sib[10]
MemTypes == {MTYPE_FLASH_PAGE, MTYPE_FUSE_BITS, MTYPE_SIGN_JTAG,
             MTYPE_USERSIG, MTYPE_SIB}
MemAddrs == {0, 256, 4608, 65536, 70144}
MemLens  == {3, 512, 65535, 66048}
Sibs     == {<<32, NVM_V4>>, <<65, NVM_V4>>}

\* SYS::is_boundary_flash_page: _after_page.  The mask is the complement of
\* a 16 bit unsigned value, widened to 32 bits afterwards.
is_boundary_flash_page(dwAddr) ==
  BitAnd(dwAddr,
         65535 - U16(Device_Descriptor.flash_page_size_msb * 256
                     + Device_Descriptor.flash_page_size - 1))

\* a memory command is answered
MemAnswer(kind, m_type, addr, len, out) ==
  /\ n_cmds < MaxMem
  /\ n_cmds' = n_cmds + 1
  /\ n_cmd' = MemCmd(kind, m_type, addr, len)
  /\ n_out' = out
  /\ UNCHANGED <<sib, Command_Table>>

\* NVM::V4::write_words_flash (boundary asked unless the chip was erased) and
\* write_bytes_flash (boundary always asked)
NVM_V4_write_flash(m_type, addr, len, dwAddr, asked) ==
  /\ before_page' = IF asked THEN is_boundary_flash_page(dwAddr)
                    ELSE before_page
  /\ n_prev' = n_last
  /\ n_last' = dwAddr
  /\ MemAnswer("write", m_type, addr, len,
       MemOut(RSP3_OK, 1, <<>>, TRUE, FALSE,
              IF asked /\ before_page # is_boundary_flash_page(dwAddr)
              THEN 1 ELSE 0,
              dwAddr))
  /\ UNCHANGED PGCONF

\* a command that leaves the page bookkeeping alone
MemPlain(kind, m_type, addr, len, r, size, data, sent, read) ==
  /\ MemAnswer(kind, m_type, addr, len,
               MemOut(r, size, data, sent, read, 0, NoPage))
  /\ UNCHANGED <<PGCONF, before_page, n_prev, n_last>>

\* CMD3_WRITE_MEMORY: the link guard, NVM::V4::write_memory and, out of
\* programming mode, UPDI::write_userrow.  The addresses sent are below 2^24,
\* so _dwAddr += PROG_START stays within 32 bits.
NVM_WRITE_MEMORY(m_type, addr, len) ==
  IF "UPDI" \notin PGCONF
  THEN MemPlain("write", m_type, addr, len, RSP3_FAILED, 0, <<>>, FALSE, FALSE)
  ELSE IF "PROG" \notin PGCONF
  THEN IF \/ m_type # MTYPE_USERSIG
          \/ U16(len) # Device_Descriptor.user_sig_bytes
          \/ U16(addr) # Device_Descriptor.user_sig_base
       THEN MemPlain("write", m_type, addr, len, RSP3_FAILED, 0, <<>>,
                     FALSE, FALSE)
       ELSE MemPlain("write", m_type, addr, len, RSP3_OK, 1, <<>>, TRUE, FALSE)
  ELSE IF m_type \in {MTYPE_EEPROM, MTYPE_FUSE_BITS, MTYPE_LOCK_BITS,
                      MTYPE_EEPROM_XMEGA}
  THEN MemPlain("write", m_type, addr, len, RSP3_OK, 1, <<>>, TRUE, FALSE)
  ELSE IF m_type \in {MTYPE_FLASH, MTYPE_USERSIG}
  THEN NVM_V4_write_flash(m_type, addr, len, addr, TRUE)
  ELSE IF m_type = MTYPE_FLASH_PAGE
  THEN NVM_V4_write_flash(m_type, addr, len, addr + PROG_START,
                          "ERSE" \notin PGCONF)
  ELSE MemPlain("write", m_type, addr, len, RSP3_OK, 1, <<>>, TRUE, FALSE)

\* UPDI::read_dummy: packet.in.data
read_dummy(m_type) ==
  IF m_type = MTYPE_SIGN_JTAG /\ sib[1] # 0
  THEN <<SIG_BYTE0, IF sib[1] = 32 THEN 65 ELSE sib[1], sib[2]>>
  ELSE <<255>>

\* CMD3_READ_MEMORY: the link guard, the SIB, NVM::V4::read_memory in
\* programming mode and read_dummy out of it; _rspsize is _wLength + 1 in 16
\* bits
NVM_READ_MEMORY(m_type, len) ==
  IF "UPDI" \notin PGCONF
  THEN MemPlain("read", m_type, 0, len, RSP3_FAILED, 0, <<>>, FALSE, FALSE)
  ELSE MemPlain("read", m_type, 0, len,
                IF U16(U16(len) + 1) # 0 THEN RSP3_DATA ELSE RSP3_FAILED,
                U16(U16(len) + 1),
                IF m_type = MTYPE_SIB THEN sib
                ELSE IF "PROG" \in PGCONF THEN <<>>
                ELSE read_dummy(m_type),
                FALSE,
                m_type # MTYPE_SIB /\ "PROG" \in PGCONF)

\* CMD3_ERASE_MEMORY, XMEGA_ERASE_CHIP: UPDI::chip_erase
NVM_ERASE_MEMORY ==
  IF Command_Table = "V4" /\ "UPDI" \in PGCONF
  THEN /\ PGCONF' = PGCONF \cup {"ERSE", "PROG"}
       /\ MemAnswer("erase", 0, 0, 0,
                    MemOut(RSP3_OK, 1, <<>>, TRUE, FALSE, 0, NoPage))
       /\ UNCHANGED <<before_page, n_prev, n_last>>
  ELSE MemPlain("erase", 0, 0, 0, RSP3_FAILED, 0, <<>>, FALSE, FALSE)

\* CMD3_SIGN_ON: UPDI::connect, which succeeds or fails
NVM_connect(ok, s) ==
  /\ PGCONF' = IF ok THEN {"UPDI"} ELSE {}
  /\ Command_Table' = IF ok THEN "V4" ELSE "V1"
  /\ before_page' = NoPage
  /\ sib' = IF ok THEN s ELSE NoSib
  /\ n_prev' = NoPage
  /\ n_last' = NoPage
  /\ n_cmd' = MemCmd("connect", 0, 0, 0)
  /\ n_out' = MemOut(IF ok THEN RSP3_DATA ELSE RSP3_FAILED,
                     IF ok THEN SIB_LEN ELSE 0, <<>>, FALSE, FALSE, 0, NoPage)
  /\ UNCHANGED n_cmds

\* CMD3_ENTER_PROGMODE at a device that is not locked
NVM_enter_progmode ==
  /\ "UPDI" \in PGCONF
  /\ "PROG" \notin PGCONF
  /\ PGCONF' = PGCONF \cup {"PROG"}
  /\ n_cmd' = MemCmd("enter", 0, 0, 0)
  /\ n_out' = MemOut(RSP3_OK, 1, <<>>, TRUE, FALSE, 0, NoPage)
  /\ UNCHANGED <<Command_Table, before_page, sib, n_prev, n_last, n_cmds>>

\* the state a first UPDI::connect leaves
InitNvm ==
  /\ FrameParked
  /\ CmdIdle
  /\ \E ok \in BOOLEAN, s \in Sibs :
       /\ PGCONF = IF ok THEN {"UPDI"} ELSE {}
       /\ Command_Table = IF ok THEN "V4" ELSE "V1"
       /\ sib = IF ok THEN s ELSE NoSib
  /\ before_page = NoPage
  /\ n_cmd = [kind |-> "none", m_type |-> 0, addr |-> 0, len |-> 0, pg |-> {}]
  /\ n_out = MemOut(0, 0, <<>>, FALSE, FALSE, 0, NoPage)
  /\ n_prev = NoPage
  /\ n_last = NoPage
  /\ n_cmds = 0
  /\ tpi_chunks = 0
  /\ vtarget = 0
  /\ v_enter = 0
  /\ n_own = {}
  /\ h_arch = NoArch
  /\ VcpParked
  /\ DescParked
  /\ RestParked
  /\ jtag_hvctrl = FALSE
  /\ target = NoTarget
  /\ t_lock = FALSE
  /\ t_on = FALSE
  /\ s_pc = "idle"
  /\ s_cmd = NoCmd
  /\ s_k = "none"
  /\ s_r = 0
  /\ s_bak = 0
  /\ res = 0
  /\ rspsize = 0
  /\ ncmds = 0
  /\ updi_connected = FALSE
  /\ ct_early = "none"

NextNvm ==
  /\ \/ \E m_type \in MemTypes, addr \in MemAddrs, len \in MemLens :
          NVM_WRITE_MEMORY(m_type, addr, len)
     \/ \E m_type \in MemTypes, len \in MemLens : NVM_READ_MEMORY(m_type, len)
     \/ NVM_ERASE_MEMORY
     \/ \E ok \in BOOLEAN, s \in Sibs : NVM_connect(ok, s)
     \/ NVM_enter_progmode
  /\ UNCHANGED <<frameVars, cmdVars, sessIdle>>
  /\ UNCHANGED <<tpi_chunks, vtarget, v_enter, n_own, h_arch, vcpVars, sysVars, descVars, restVars>>

SpecNvm == InitNvm /\ [][NextNvm]_vars

(***************************************************************************)
(* SpecRt: a WRITE_MEMORY and the READ_MEMORY after it, in programming     *)
(* mode with NVM::V4 bound, as transfers on the UPDI line.  The target     *)
(* stores the bytes sent to it and gives them back; for a block it takes   *)
(* or gives as many units as the REPEAT count says.  A transfer in which   *)
(* the programmer sends or waits for another number of bytes ends at the   *)
(* deadline of Timeout::command.                                           *)
(***************************************************************************)
MTYPE_SRAM == 32          \* 0x20
PROD_SIG == 4224          \* 0x1080

\* do { ... } while (--_len) with a 16 bit _len: the passes made
Passes(len) == IF len = 0 THEN 65536 ELSE len

\* UPDI::send_bytes_data, send_bytes_block_slow: one STS for each byte
send_bytes_data(dwAddr, wLength) == Xfer(dwAddr, wLength, wLength)

\* UPDI::send_bytes_block: _set_repeat[2] = _wLength - 1
send_bytes_block(dwAddr, wLength) ==
  IF wLength = 1 THEN Xfer(dwAddr, 1, 1)
  ELSE Xfer(dwAddr, U8(wLength - 1) + 1, Passes(wLength))

\* UPDI::send_words_block: _set_repeat[2] = (_wLength >> 1) - 1, and
\* send_bytes of _wLength & ~1
send_words_block(dwAddr, wLength) ==
  Xfer(dwAddr, 2 * (U8((wLength \div 2) - 1) + 1),
       Passes(wLength - (wLength % 2)))

\* UPDI::recv_bytes_block
recv_bytes_block(dwAddr, wLength) ==
  IF wLength = 1 THEN Xfer(dwAddr, 1, 1)
  ELSE Xfer(dwAddr, U8(wLength - 1) + 1, Passes(wLength))

\* UPDI::recv_words_block
recv_words_block(dwAddr, wLength) ==
  Xfer(dwAddr, 2 * (U8((wLength \div 2) - 1) + 1),
       Passes(wLength - (wLength % 2)))

\* NVM::V4::write_memory in programming mode
NVM_V4_write_memory(m_type, dwAddr, wLength) ==
  IF m_type \in {MTYPE_EEPROM, MTYPE_FUSE_BITS, MTYPE_LOCK_BITS,
                 MTYPE_EEPROM_XMEGA}
  THEN send_bytes_data(dwAddr, wLength)
  ELSE IF m_type \in {MTYPE_FLASH, MTYPE_USERSIG}
  THEN send_bytes_data(dwAddr, wLength)
  ELSE IF m_type = MTYPE_FLASH_PAGE
  THEN send_words_block(dwAddr + PROG_START, wLength)
  ELSE send_bytes_block(dwAddr, wLength)

\* NVM::V4::read_memory in programming mode
NVM_V4_read_memory(m_type, dwAddr, wLength) ==
  IF m_type = MTYPE_FLASH_PAGE
  THEN recv_words_block(dwAddr + PROG_START, wLength)
  ELSE IF m_type = MTYPE_SIGN_JTAG
  THEN recv_bytes_block(PROD_SIG + (U8(dwAddr) % 128), wLength)
  ELSE recv_bytes_block(dwAddr, wLength)

\* the programmer and the target agree on the bytes of the transfer
Agreed(x) == x.count = x.units

\* bMType, dwAddr and dwLength of the two commands, and the first byte of
\* memData
RtTypes == {MTYPE_SRAM, MTYPE_EEPROM, MTYPE_FLASH_PAGE, MTYPE_FUSE_BITS,
            MTYPE_LOCK_BITS, MTYPE_SIGN_JTAG, MTYPE_FLASH,
            MTYPE_EEPROM_XMEGA, MTYPE_USERSIG}
RtAddrs == {0, 4608}
RtLens == {1, 2, 512}
RtPats == {17, 200}

\* jtag_scope_updi: CMD3_WRITE_MEMORY; a 16 bit size_t takes dwLength
Rt_WRITE_MEMORY(m_type, addr, len, pat) ==
  /\ rt_pc = "host"
  /\ rt_pc' = "written"
  /\ LET x == NVM_V4_write_memory(m_type, addr, U16(len))
     IN /\ rt_w' = [m_type |-> m_type, addr |-> addr, len |-> len,
                    pat |-> pat, x |-> x,
                    res |-> IF Agreed(x) /\ x.count # 0 THEN RSP3_OK
                            ELSE RSP3_FAILED]
        /\ rt_mem' = Xfer(x.ptr, IF x.units < x.count THEN x.units
                                 ELSE x.count, x.count)
  /\ UNCHANGED rt_r

\* jtag_scope_updi: CMD3_READ_MEMORY; _rspsize is _wLength + 1
Rt_READ_MEMORY(m_type, addr, len) ==
  /\ rt_pc = "written"
  /\ rt_pc' = "read"
  /\ LET x == NVM_V4_read_memory(m_type, addr, U16(len))
         size == IF Agreed(x) THEN U16(U16(len) + 1) ELSE 0
     IN rt_r' = [m_type |-> m_type, addr |-> addr, len |-> len, x |-> x,
                 res |-> IF size # 0 THEN RSP3_DATA ELSE RSP3_FAILED,
                 size |-> size]
  /\ UNCHANGED <<rt_w, rt_mem>>

\* the host starts over
Rt_next ==
  /\ rt_pc = "read"
  /\ rt_pc' = "host"
  /\ rt_w' = NoWrite
  /\ rt_mem' = NoXfer
  /\ rt_r' = NoRead

\* byte i of memData, and byte i of packet.in.data after the read: what
\* the target holds there, 0xFF where nothing was stored
OutMemData(i) == (rt_w.pat + i) % 256

InData(i) ==
  LET a == rt_r.x.ptr + i
  IN IF a >= rt_mem.ptr /\ a < rt_mem.ptr + rt_mem.units
     THEN OutMemData(a - rt_mem.ptr) ELSE 255

InitRt ==
  /\ FrameParked
  /\ CmdIdle
  /\ PGCONF = {"UPDI", "PROG"}
  /\ Command_Table = "V4"
  /\ SessQuiet
  /\ NvmQuiet
  /\ RestParked

NextRt ==
  /\ \/ \E m_type \in RtTypes, addr \in RtAddrs, len \in RtLens,
           pat \in RtPats : Rt_WRITE_MEMORY(m_type, addr, len, pat)
     \/ \E m_type \in RtTypes, addr \in RtAddrs, len \in RtLens :
          Rt_READ_MEMORY(m_type, addr, len)
     \/ Rt_next
  /\ UNCHANGED <<frameVars, cmdVars, sessVars>>
  /\ UNCHANGED <<nvmIdle, h_arch, vcpVars, sysVars, descVars, notRt>>

SpecRt == InitRt /\ [][NextRt]_vars

(***************************************************************************)
(* SpecSend: UPDI::send_bytes, UPDI::send and UPDI::recv on a line that    *)
(* gives any frame back for a byte sent.                                   *)
(***************************************************************************)
MaxSend == 3

SendBytes == {0, 85}

\* USART0_RXDATAH: RXCIF alone, or with FERR, PERR or BUFOVF
RxStates == {128, 132, 130, 192}

UPDI_recv_Always(rxdatah) == TRUE

\* UPDI::recv: RXSTAT = USART0_RXDATAH ^ 0x80; return RXSTAT == 0
UPDI_recv(rxdatah) ==
  (IF rxdatah >= 128 THEN rxdatah - 128 ELSE rxdatah + 128) = 0

\* UPDI::send: return recv() && _data == RXDATA
UPDI_send(data, echo) == UPDI_recv(echo.h) /\ data = echo.l

\* one pass of the loop of send_bytes: if (!send(*_data++)) return false,
\* while (--_len)
UPDI_send_bytes ==
  /\ sb_ret = NoValue
  /\ sb_sent' = sb_sent + 1
  /\ sb_ret' = IF ~UPDI_send(sb_data[sb_sent + 1], sb_echo[sb_sent + 1]) THEN 0
               ELSE IF sb_sent + 1 = Len(sb_data) THEN 1
               ELSE NoValue
  /\ UNCHANGED <<sb_data, sb_echo>>

InitSend ==
  /\ FrameParked
  /\ CmdIdle
  /\ SessParked
  /\ NvmQuiet
  /\ NotSendParked
  /\ \E n \in 1 .. MaxSend :
       /\ sb_data \in [1 .. n -> SendBytes]
       /\ sb_echo \in [1 .. n -> [h : RxStates, l : SendBytes]]
  /\ sb_sent = 0
  /\ sb_ret = NoValue

NextSend ==
  /\ UPDI_send_bytes
  /\ UNCHANGED <<frameVars, cmdVars, sessVars>>
  /\ UNCHANGED <<nvmIdle, h_arch, vcpVars, sysVars, descVars, notSend>>

SpecSend == InitSend /\ [][NextSend]_vars

(***************************************************************************)
(* SpecBudget: the time the retry loop of UPDI::connect takes, in the      *)
(* 1/1024 s units Timeout::start counts in.                                *)
(***************************************************************************)
ConnectMs == 20       \* Timeout::command(&updi_activate, nullptr, 20)
BudgetMs  == 64       \* "must be successful within 64ms"

\* 64 ms in units of 1/1024 s, rounded down
BudgetTicks == (BudgetMs * 1024) \div 1000

\* updi_activate holds the line low for 2.5 ms before it sends anything
ActivateTicks == {3, 10}

\* read_sib at its quickest and at a low clock
SibTicks == {1, 9}

\* the units gone by when ISR(TCB0_INT_vect) fires: TCB0_CNT starts at 0
\* somewhere between two events of the 1/1024 s clock
Deadline(ms) == {ms - 1, ms}

\* Timeout::command(func_p, nullptr, _ms): the operation returns 0 or not
\* after one of the times given, or the deadline ends it with 0
Timeout_outcomes(ticks, ms) ==
  [t : ticks, ret : {0, 1}] \cup [t : Deadline(ms), ret : {0}]

\* the attempt failed: _r++, and the loop ends after 4 rounds
Budget_retry ==
  /\ cb_r' = cb_r + 1
  /\ cb_pc' = IF cb_r + 1 < ConnectRetries THEN "activate" ELSE "done"
  /\ cb_ret' = IF cb_r + 1 < ConnectRetries THEN NoValue ELSE 0

\* if (Timeout::command(&updi_activate, nullptr, 20))
Budget_activate ==
  /\ cb_pc = "activate"
  /\ \E o \in Timeout_outcomes(ActivateTicks, ConnectMs) :
       /\ cb_t' = cb_t + o.t
       /\ IF o.ret # 0
          THEN cb_pc' = "sib" /\ UNCHANGED <<cb_r, cb_ret>>
          ELSE Budget_retry
  /\ UNCHANGED cb_hv

\* _result = Timeout::command(&read_sib, nullptr, 20);
\* if (_result) return _result
Budget_read_sib ==
  /\ cb_pc = "sib"
  /\ \E o \in Timeout_outcomes(SibTicks, ConnectMs) :
       /\ cb_t' = cb_t + o.t
       /\ IF o.ret # 0
          THEN cb_pc' = "done" /\ cb_ret' = 5 /\ UNCHANGED cb_r
          ELSE Budget_retry
  /\ UNCHANGED cb_hv

InitBudget ==
  /\ FrameParked
  /\ CmdIdle
  /\ SessParked
  /\ NvmQuiet
  /\ NotBudgetParked
  /\ cb_pc = "activate"
  /\ cb_r = 0
  /\ cb_t = 0
  /\ cb_hv \in BOOLEAN
  /\ cb_ret = NoValue

NextBudget ==
  /\ \/ Budget_activate
     \/ Budget_read_sib
  /\ UNCHANGED <<frameVars, cmdVars, sessVars>>
  /\ UNCHANGED <<nvmIdle, h_arch, vcpVars, sysVars, descVars, notBudget>>

SpecBudget == InitBudget /\ [][NextBudget]_vars

(***************************************************************************)
(* SpecProg: UPDI::enter_progmode step by step, under Timeout::command     *)
(* with UPDI::timeout_fallback, on a linked target.                        *)
(***************************************************************************)
bit_is_set(x, b) == (x \div (2 ^ b)) % 2 = 1

bit_is_clear(x, b) == ~bit_is_set(x, b)

\* ASI_KEY_STATUS as the target sends it: NVMPROG (bit 4) set or not, with
\* or without UROWWRITE (bit 5)
KeyStates == {0, 16, 32, 48}

\* ASI_SYS_STATUS as the target sends it: LOCKSTATUS (bit 0), with or
\* without NVMPROG (bit 3)
SysStates(lock) == IF lock THEN {1, 9} ELSE {0, 8}

\* a byte received with a framing or parity error
Garbled == {85, 254, 47}

sys_status_Always(ok) == TRUE

\* sys_status: return send_bytes(_sys_stat, 2) && recv()
sys_status(ok) == ok

\* if (bit_is_set(PGCONF, PGCONF_PROG_bp)) return 1
Prog_enter ==
  /\ ep_pc = "start"
  /\ ep_h' = NoProgHist
  /\ IF ep_prog
     THEN ep_pc' = "done" /\ ep_ret' = 1
     ELSE ep_pc' = "key" /\ ep_ret' = NoValue
  /\ UNCHANGED <<ep_rx, ep_lock, ep_prog>>

\* set_nvmprog_key: send_bytes(nvmprog_key, sizeof(nvmprog_key)); the last
\* byte received is the echo of the last byte sent
Prog_send_key(ok) ==
  /\ ep_pc = "key"
  /\ ep_rx' \in Garbled \cup {0}
  /\ IF ok
     THEN /\ ep_pc' = "wait_set"
          /\ ep_h' = [ep_h EXCEPT !.key = TRUE]
          /\ ep_ret' = NoValue
     ELSE /\ ep_pc' = "done"
          /\ ep_ret' = 0
          /\ ep_h' = ep_h
  /\ UNCHANGED <<ep_lock, ep_prog>>

\* key_wait_set(4): do { key_status(); } while (bit_is_clear(RXDATA, 4)),
\* then sys_reset(false)
Prog_key_wait_set(rx, ok) ==
  /\ ep_pc = "wait_set"
  /\ ep_rx' = rx
  /\ IF bit_is_clear(rx, 4)
     THEN UNCHANGED <<ep_pc, ep_h, ep_ret>>
     ELSE /\ ep_h' = [ep_h EXCEPT !.seen = TRUE]
          /\ IF ok
             THEN ep_pc' = "wait_clear" /\ ep_ret' = NoValue
             ELSE ep_pc' = "done" /\ ep_ret' = 0
  /\ UNCHANGED <<ep_lock, ep_prog>>

\* key_wait_clear(4): do { key_status(); } while (bit_is_set(RXDATA, 4))
Prog_key_wait_clear(rx) ==
  /\ ep_pc = "wait_clear"
  /\ ep_rx' = rx
  /\ ep_pc' = IF bit_is_set(rx, 4) THEN "wait_clear" ELSE "sys"
  /\ UNCHANGED <<ep_lock, ep_prog, ep_h, ep_ret>>

\* if (... && sys_status() && bit_is_clear(RXDATA, 0)) {
\*   bit_set(PGCONF, PGCONF_PROG_bp); (*Command_Table.prog_init)(); }
\* return 1
Prog_sys_status(rx, ok) ==
  /\ ep_pc = "sys"
  /\ ep_rx' = rx
  /\ IF sys_status(ok) /\ bit_is_clear(rx, 0)
     THEN /\ ep_prog' = TRUE
          /\ ep_h' = [ep_h EXCEPT !.clear = TRUE, !.init = TRUE]
     ELSE UNCHANGED <<ep_prog, ep_h>>
  /\ ep_pc' = "done"
  /\ ep_ret' = 1
  /\ UNCHANGED ep_lock

\* the target does not answer a status read: recv waits until the
\* deadline, and UPDI::timeout_fallback has enter_progmode called again or
\* Timeout::command gives up
Prog_deadline(again) ==
  /\ ep_pc \in {"wait_set", "wait_clear", "sys"}
  /\ IF again
     THEN ep_pc' = "start" /\ ep_ret' = NoValue
     ELSE ep_pc' = "done" /\ ep_ret' = 0
  /\ UNCHANGED <<ep_rx, ep_lock, ep_prog, ep_h>>

\* the host sends CMD3_ENTER_PROGMODE again
Prog_again ==
  /\ ep_pc = "done"
  /\ ep_pc' = "start"
  /\ ep_ret' = NoValue
  /\ UNCHANGED <<ep_rx, ep_lock, ep_prog, ep_h>>

InitProg ==
  /\ FrameParked
  /\ CmdIdle
  /\ SessParked
  /\ NvmQuiet
  /\ NotProgParked
  /\ ep_pc = "start"
  /\ ep_rx \in KeyStates \cup Garbled
  /\ ep_lock \in BOOLEAN
  /\ ep_prog = FALSE
  /\ ep_h = NoProgHist
  /\ ep_ret = NoValue

NextProg ==
  /\ \/ Prog_enter
     \/ \E ok \in BOOLEAN : Prog_send_key(ok)
     \/ \E rx \in KeyStates, ok \in BOOLEAN : Prog_key_wait_set(rx, ok)
     \/ \E rx \in Garbled : Prog_key_wait_set(rx, TRUE)
     \/ \E rx \in KeyStates \cup Garbled : Prog_key_wait_clear(rx)
     \/ \E rx \in SysStates(ep_lock) : Prog_sys_status(rx, TRUE)
     \/ \E rx \in Garbled \cup {0} : Prog_sys_status(rx, FALSE)
     \/ \E again \in BOOLEAN : Prog_deadline(again)
     \/ Prog_again
  /\ UNCHANGED <<frameVars, cmdVars, sessVars>>
  /\ UNCHANGED <<nvmIdle, h_arch, vcpVars, sysVars, descVars, notProg>>

SpecProg == InitProg /\ [][NextProg]_vars

(***************************************************************************)
(* SpecBlock: UPDI::send_bytes_block, send_bytes_block_fill and            *)
(* send_words_block, one operand of their && chain at a time.              *)
(***************************************************************************)
BlockFuncs == {"bytes", "fill", "words"}
BlockLens  == {1, 2, 64}

\* the operands of the && chain, in the order they are evaluated
\* send_bytes_block: if (_wLength == 1) return send_byte(...)
Chain(func, len) ==
  IF func = "bytes" /\ len = 1 THEN <<"send_byte">>
  ELSE <<"set_ptr24", "is_ack", "set_rsd", "set_repeat", "data", "clear_rsd">>

\* the next operand is evaluated: what it sends is sent, and && goes on
\* to the next operand only when it returned true
Block_operand(ok) ==
  /\ bw_ret = NoValue
  /\ bw_func \in BlockFuncs
  /\ LET op == Chain(bw_func, bw_len)[Len(bw_log) + 1]
     IN /\ bw_log' = Append(bw_log, op)
        /\ bw_rsd' = IF ~ok THEN bw_rsd
                     ELSE IF op = "set_rsd" THEN TRUE
                     ELSE IF op = "clear_rsd" THEN FALSE
                     ELSE bw_rsd
        /\ bw_ret' = IF ~ok THEN 0
                     ELSE IF Len(bw_log) + 1 = Len(Chain(bw_func, bw_len))
                     THEN 1
                     ELSE NoValue
  /\ UNCHANGED <<bw_func, bw_len>>

\* the next block write of the session
Block_call(func, len) ==
  /\ bw_ret # NoValue
  /\ bw_func' = func
  /\ bw_len' = len
  /\ bw_log' = <<>>
  /\ bw_ret' = NoValue
  /\ UNCHANGED bw_rsd

InitBlock ==
  /\ FrameParked
  /\ CmdIdle
  /\ SessParked
  /\ NvmQuiet
  /\ NotBlockParked
  /\ bw_func \in BlockFuncs
  /\ bw_len \in BlockLens
  /\ bw_log = <<>>
  /\ bw_rsd = FALSE
  /\ bw_ret = NoValue

NextBlock ==
  /\ \/ \E ok \in BOOLEAN : Block_operand(ok)
     \/ \E func \in BlockFuncs, len \in BlockLens : Block_call(func, len)
  /\ UNCHANGED <<frameVars, cmdVars, sessVars>>
  /\ UNCHANGED <<nvmIdle, h_arch, vcpVars, sysVars, descVars, notBlock>>

SpecBlock == InitBlock /\ [][NextBlock]_vars

(***************************************************************************)
(* SpecLen: the extents of the stores into packet and the numbers that     *)
(* complete_jtag_transactions leaves, for the fragment header and the      *)
(* READ_MEMORY length the host chooses.                                    *)
(***************************************************************************)
InDataOfs == 7        \* offsetof(JTAG_Packet_t, in.data)

LenFrags  == 0 .. 15
LenEndfs  == 1 .. 9
LenSizes  == {0, 1, 60, 255}
LenReads  == {1, 3, 32, 512, 513, 532, 533, 534, 834, 835, 900, 65535}
LenTypes  == {MTYPE_SIB, MTYPE_SIGN_JTAG, MTYPE_FLASH_PAGE, MTYPE_SRAM}
LenAddrs  == {0, 31}

Store(ofst, n) == [ofst |-> ofst, n |-> n]

Least(a, b) == IF a < b THEN a ELSE b

\* JTAG::dap_command_check, _cmd == 0x80, _endf < 10:
\* memcpy(&packet.rawData[_ofst], &EP_MEM.dap_data[4], _size)
Len_dap_command_check(frag, endf, size) ==
  /\ ~TooManyFragments(endf)
  /\ ln_op' = "copy"
  /\ ln_in' = [NoLenIn EXCEPT !.frag = frag, !.endf = endf, !.size = size]
  /\ ln_writes' = {Store(FragOffset(frag), size)}
  /\ ln_rsp' = NoLenRsp

\* _rspsize of CMD3_READ_MEMORY on a linked session
ReadSize(m_type, len, prog, agreed) ==
  IF prog /\ m_type # MTYPE_SIB /\ ~agreed THEN 0 ELSE U16(len + 1)

\* the stores of CMD3_READ_MEMORY into packet.in.data: the SIB copy,
\* NVM::V4::read_memory in programming mode, UPDI::read_dummy out of it
ReadStores(m_type, addr, len, prog, sib0) ==
  IF m_type = MTYPE_SIB
  THEN {Store(InDataOfs + (U8(addr) % 32), (U16(len - 1) % 32) + 1)}
  ELSE IF prog
  THEN LET x == NVM_V4_read_memory(m_type, addr, len)
       IN  {Store(InDataOfs, Least(x.units, x.count))}
  ELSE IF m_type = MTYPE_SIGN_JTAG /\ sib0 # 0
  THEN {Store(InDataOfs, 3)}
  ELSE {Store(InDataOfs, len)}

\* jtag_scope_updi, CMD3_READ_MEMORY, then JTAG::complete_jtag_transactions
\* with its packet.rawData[_packet_length] = 0
Len_READ_MEMORY(m_type, addr, len, prog, sib0) ==
  LET size == ReadSize(m_type, len, prog,
                       Agreed(NVM_V4_read_memory(m_type, addr, len)))
  IN  /\ ln_op' = "read"
      /\ ln_in' = [NoLenIn EXCEPT !.m_type = m_type, !.addr = addr,
                                  !.len = len, !.prog = prog, !.sib0 = sib0]
      /\ ln_writes' = ReadStores(m_type, addr, len, prog, sib0)
                      \cup {Store(DataOfs, 2),
                            Store(TokenOfs, 1),
                            Store(CompleteLength(size), 1)}
      /\ ln_rsp' = [size |-> size, length |-> CompleteLength(size),
                    endfrag |-> CompleteEndfrag(size)]

InitLen ==
  /\ FrameParked
  /\ CmdIdle
  /\ SessParked
  /\ NvmQuiet
  /\ NotLenParked
  /\ LenParked

NextLen ==
  /\ \/ \E frag \in LenFrags, endf \in LenEndfs, size \in LenSizes :
          Len_dap_command_check(frag, endf, size)
     \/ \E m_type \in LenTypes, addr \in LenAddrs, len \in LenReads,
           prog \in BOOLEAN, sib0 \in {0, 65} :
          Len_READ_MEMORY(m_type, addr, len, prog, sib0)
  /\ UNCHANGED <<frameVars, cmdVars, sessVars>>
  /\ UNCHANGED <<nvmIdle, h_arch, vcpVars, sysVars, descVars, notLen>>

SpecLen == InitLen /\ [][NextLen]_vars

(***************************************************************************)
(* The TPI memory commands at a device that answers: TPI::connect fixing   *)
(* _tpi_chunks, the supply gate of TPI::jtag_scope_tpi and the widening of *)
(* TPI::write_memory.                                                      *)
(***************************************************************************)
TpiSignatures == {SIG_ATTINY40, SIG_ATTINY20, 36867}  \* 0x9003: an ATtiny10
TpiAddrs == {16384, 16385, 16387}     \* flash from 0x4000
TpiVdds  == {3300, 4499, 4500, 5000}  \* SYS::get_vdd(), mV
MaxLen   == 3
TpiLens  == 1 .. MaxLen
TpiTypes == {XPRG_MEM_TYPE_APPL, 2}

\* _tpi_chunks for the signature read at connect
TpiChunks(signature) ==
  IF signature = SIG_ATTINY40 THEN 8
  ELSE IF signature = SIG_ATTINY20 THEN 4
  ELSE 2

\* the bytes a WRITE_MEM of len bytes carries, and the length after rounding
\* up to a multiple of chunks
MemData(len) == [i \in 1 .. len |-> 16 + i]
Widened(len, chunks) == len + ((chunks - (len % chunks)) % chunks)

\* TPI::write_memory up to FIXED_WRITE: _dwAddr, _wLength, the bytes from _p
\* on that WRITE_PAGE streams, and the addresses of the programmer's own data
\* space the second loop stores 0xFF to.  Behind the host's bytes memData
\* holds what the buffer held before.
TPI_write_memory(chunks, dwAddr, wLength) ==
  LET lead == dwAddr % chunks
      len1 == wLength + lead
      len2 == Widened(len1, chunks)
  IN  [addr   |-> dwAddr - lead,
       len    |-> len2,
       stream |-> [i \in 1 .. lead |-> 255] \o MemData(wLength)
                  \o [i \in 1 .. (len2 - len1) |-> Stale],
       own    |-> { U16((dwAddr - lead) + k) : k \in len1 .. (len2 - 1) }]

\* a command of the TPI scope is answered: tpi_res, ++_rspsize
TpiAnswer(kind, m_type, addr, len, size, data, sent, read, erases, at, own) ==
  /\ n_cmd' = MemCmd(kind, m_type, addr, len)
  /\ n_out' = MemOut(IF size = 0 THEN XPRG_ERR_FAILED ELSE XPRG_ERR_OK,
                     U16(size + 1), data, sent, read, erases, at)
  /\ n_own' = own
  /\ UNCHANGED <<before_page, sib, n_prev, n_last>>

\* XPRG_CMD_ENTER_PROGMODE: _vtarget is measured, TPI::connect reads the
\* signature, or gets no answer
TPI_ENTER(vdd, signature, ok) ==
  /\ vtarget' = vdd
  /\ v_enter' = vdd
  /\ jtag_arch' = 0
  /\ usart' = "tpi"
  /\ PGCONF' = IF ok THEN {"UPDI", "PROG"} ELSE {}
  /\ tpi_chunks' = IF ok THEN TpiChunks(signature) ELSE tpi_chunks
  /\ TpiAnswer("enter", 0, 0, 0, IF ok THEN 1 ELSE 0, <<>>, TRUE, ok, 0,
               NoPage, {})
  /\ UNCHANGED n_cmds

\* XPRG_CMD_LEAVE_PROGMODE
TPI_LEAVE ==
  /\ PGCONF' = {}
  /\ usart' = "vcp"
  /\ TpiAnswer("leave", 0, 0, 0, 1, <<>>, "UPDI" \in PGCONF, FALSE, 0,
               NoPage, {})
  /\ UNCHANGED <<vtarget, v_enter, jtag_arch, tpi_chunks, n_cmds>>

\* CMD3_SIGN_ON of the general scope measures _vtarget as well
TPI_general_SIGN_ON(vdd) ==
  /\ vtarget' = vdd
  /\ jtag_arch' = 0
  /\ PGCONF' = {}
  /\ n_cmd' = MemCmd("sign_on", 0, 0, 0)
  /\ n_out' = MemOut(RSP3_OK, 1, <<>>, FALSE, FALSE, 0, NoPage)
  /\ n_own' = {}
  /\ UNCHANGED <<before_page, sib, n_prev, n_last>>
  /\ UNCHANGED <<v_enter, usart, tpi_chunks, n_cmds>>

\* no supply gate
SupplyGate_None(kind) == FALSE

\* the supply gate, which XPRG_CMD_READ_MEM comes before
SupplyGate(kind) == kind # "tpi_read" /\ vtarget < VTARGET_MIN

\* XPRG_CMD_READ_MEM, XPRG_CMD_ERASE and XPRG_CMD_WRITE_MEM: the link guard,
\* the read, the supply gate, the erase and the write
TPI_MEM(kind, m_type, addr, len) ==
  /\ n_cmds < MaxMem
  /\ n_cmds' = n_cmds + 1
  /\ IF "UPDI" \notin PGCONF
     THEN TpiAnswer(kind, m_type, addr, len, 0, <<>>, FALSE, FALSE, 0,
                    NoPage, {})
     ELSE IF kind = "tpi_read"
     THEN TpiAnswer(kind, m_type, addr, len, U16(len + 1), <<>>, TRUE, TRUE,
                    0, NoPage, {})
     ELSE IF SupplyGate(kind)
     THEN TpiAnswer(kind, m_type, addr, len, 0, <<>>, FALSE, FALSE, 0,
                    NoPage, {})
     ELSE IF kind = "tpi_erase"
     THEN TpiAnswer(kind, m_type, addr, len, 1, <<>>, TRUE, FALSE, 1,
                    NoPage, {})
     ELSE TpiAnswer(kind, m_type, addr, len, 1,
                    TPI_write_memory(tpi_chunks, addr, len).stream,
                    TRUE, FALSE,
                    IF m_type # XPRG_MEM_TYPE_APPL THEN 1 ELSE 0,
                    TPI_write_memory(tpi_chunks, addr, len).addr,
                    TPI_write_memory(tpi_chunks, addr, len).own)
  /\ UNCHANGED <<PGCONF, vtarget, v_enter, jtag_arch, usart, tpi_chunks>>

\* before the first XPRG_CMD_ENTER_PROGMODE; _vtarget is in .noinit
InitTpi ==
  /\ FrameParked
  /\ SessParked
  /\ xclk = XclkDefault
  /\ usart = "off"
  /\ jtag_arch = 0
  /\ tcb0 = FALSE
  /\ t_pc = "idle"
  /\ t_func = "none"
  /\ t_fail = "none"
  /\ t_result = 0
  /\ op_ret = NoValue
  /\ t_retried = FALSE
  /\ t_hist = NoHist
  /\ before_page = NoPage
  /\ sib = NoSib
  /\ n_cmd = [kind |-> "none", m_type |-> 0, addr |-> 0, len |-> 0, pg |-> {}]
  /\ n_out = MemOut(0, 0, <<>>, FALSE, FALSE, 0, NoPage)
  /\ n_prev = NoPage
  /\ n_last = NoPage
  /\ n_cmds = 0
  /\ n_own = {}
  /\ h_arch = NoArch
  /\ VcpParked
  /\ DescParked
  /\ RestParked
  /\ vtarget \in TpiVdds
  /\ v_enter = vtarget
  /\ tpi_chunks = 2

NextTpi ==
  /\ \/ \E vdd \in TpiVdds, signature \in TpiSignatures, ok \in BOOLEAN :
          TPI_ENTER(vdd, signature, ok)
     \/ TPI_LEAVE
     \/ \E vdd \in TpiVdds : TPI_general_SIGN_ON(vdd)
     \/ \E kind \in {"tpi_read", "tpi_erase", "tpi_write"},
           m_type \in TpiTypes, addr \in TpiAddrs, len \in TpiLens :
          TPI_MEM(kind, m_type, addr, len)
  /\ UNCHANGED <<frameVars, sessIdle, Command_Table, h_arch, vcpVars, sysVars, descVars, restVars>>
  /\ UNCHANGED <<xclk, tcb0, t_pc, t_func, t_fail, t_result, op_ret, t_retried, t_hist>>

SpecTpi == InitTpi /\ [][NextTpi]_vars

(***************************************************************************)
(* SpecVcp: the USART between the virtual serial port and the programming  *)
(* interfaces.  The main loop takes the CDC class requests, the bus events *)
(* and the commands one after the other; ok: the target answered.          *)
(***************************************************************************)
LineRates == {0, 300, 9600, 115200}

\* USART::change_vcp: _baud, doubled for the double speed mode
VcpBaud(rate) ==
  LET b == IF rate # 0 THEN (((F_CPU * 8) \div rate) + 1) \div 2 ELSE 0
  IN  IF b < 96 THEN b * 2 ELSE b

\* the USART mode and GPCONF_VCP_bp
Uart(mode, vcp) == [usart |-> mode, vcp |-> vcp]

\* USART::disable_vcp: if (USART0_CTRLB)
disable_vcp(m) == IF m.usart # "off" THEN Uart("off", FALSE) ELSE m

\* USART::setup
USART_setup(m) == disable_vcp(m)

\* USART::change_vcp: if (_baud < 0x10000UL && _baud >= 64)
change_vcp(m, rate) ==
  IF VcpBaud(rate) < 65536 /\ VcpBaud(rate) >= 64 THEN Uart("vcp", TRUE) ELSE m

\* USART::change_updi, USART::change_tpi
change_pgm(m, mode) == Uart(mode, m.vcp)

\* the USART is left as m
Leaves(m) == usart' = m.usart /\ gp_vcp' = m.vcp

\* USART::change_vcp: GPCONF &= ~(GPCONF_HLD_bm | GPCONF_RIS_bm | GPCONF_FAL_bm)
DropsSw0 == gp_fal' = FALSE /\ gp_ris' = FALSE

\* the step is no restart
Runs == h_boot' = "none"

\* jtag_scope_avr_core: SET_PARAMETER of PARM3_ARCH
Vcp_SET_PARAMETER(arch) ==
  /\ UNCHANGED descVars
  /\ jtag_arch' = arch
  /\ xclk' = XclkDefault
  /\ UNCHANGED <<PGCONF, usart, vcpVars, gp_fal, gp_ris, trst>>

\* jtag_scope_general: CMD3_SIGN_ON
Vcp_general_SIGN_ON ==
  /\ dev_desc' = dev_desc
  /\ h_cur' = {}
  /\ h_old' = [i \in 1 .. DescLen |->
                IF i \in h_cur THEN dev_desc[i] ELSE h_old[i]]
  /\ PGCONF' = {}
  /\ jtag_arch' = 0
  /\ UNCHANGED <<xclk, usart, vcpVars, gp_fal, gp_ris, trst>>

\* UPDI::connect: _xclk after r rounds that failed
RECURSIVE Rounds(_, _)
Rounds(x, r) ==
  IF r = 0 THEN x ELSE Lowered(Rounds(x, r - 1), UPDI_STEP, UPDI_FLOOR)

\* jtag_scope_updi: CMD3_SIGN_ON, UPDI::connect with r rounds that failed
Vcp_UPDI_SIGN_ON(r) ==
  /\ UNCHANGED descVars
  /\ jtag_arch = ARCH_UPDI
  /\ PGCONF' = IF r < ConnectRetries THEN {"UPDI"} ELSE {}
  /\ Leaves(IF r < ConnectRetries
            THEN change_pgm(USART_setup(Uart(usart, gp_vcp)), "updi")
            ELSE USART_setup(change_pgm(USART_setup(Uart(usart, gp_vcp)),
                                        "updi")))
  /\ xclk' = Rounds(xclk, r)
  /\ trst' = "high"
  /\ UNCHANGED <<jtag_arch, gp_brk, line_enc, gp_fal, gp_ris>>

\* jtag_scope_updi: CMD3_SIGN_OFF
Vcp_UPDI_SIGN_OFF ==
  /\ UNCHANGED descVars
  /\ jtag_arch = ARCH_UPDI
  /\ PGCONF' = {}
  /\ Leaves(change_vcp(USART_setup(Uart(usart, gp_vcp)), line_enc))
  /\ DropsSw0
  /\ trst' = "high"
  /\ UNCHANGED <<jtag_arch, xclk, gp_brk, line_enc>>

\* jtag_scope_updi: CMD3_ENTER_PROGMODE; without an answer the deadline
\* passes and UPDI::timeout_fallback lowers the clock
Vcp_UPDI_ENTER_PROGMODE(ok) ==
  /\ UNCHANGED descVars
  /\ jtag_arch = ARCH_UPDI
  /\ PGCONF' = IF ok /\ "UPDI" \in PGCONF THEN PGCONF \cup {"PROG"}
               ELSE PGCONF
  /\ IF ok /\ "UPDI" \in PGCONF
     THEN UNCHANGED <<xclk, usart, gp_vcp>>
     ELSE /\ xclk' = UPDI_fallback_xclk(xclk)
          /\ Leaves(IF AtFloor(xclk, UPDI_FLOOR) THEN Uart(usart, gp_vcp)
                    ELSE change_pgm(Uart(usart, gp_vcp), "updi"))
  /\ UNCHANGED <<jtag_arch, gp_brk, line_enc, gp_fal, gp_ris, trst>>

\* jtag_scope_tpi: XPRG_CMD_ENTER_PROGMODE, TPI::connect
Vcp_TPI_ENTER(ok) ==
  /\ UNCHANGED descVars
  /\ jtag_arch' = 0
  /\ PGCONF' = IF ok THEN {"UPDI", "PROG"} ELSE {}
  /\ Leaves(change_pgm(USART_setup(Uart(usart, gp_vcp)), "tpi"))
  /\ trst' = "low"
  /\ UNCHANGED <<xclk, gp_brk, line_enc, gp_fal, gp_ris>>

\* jtag_scope_tpi: XPRG_CMD_LEAVE_PROGMODE
Vcp_TPI_LEAVE ==
  /\ UNCHANGED descVars
  /\ PGCONF' = {}
  /\ Leaves(change_vcp(USART_setup(Uart(usart, gp_vcp)), line_enc))
  /\ DropsSw0
  /\ trst' = "high"
  /\ UNCHANGED <<jtag_arch, xclk, gp_brk, line_enc>>

\* jtag_scope_avr_core: SET_PARAMETER of PARM3_DEVICEDESC,
\* memcpy(&Device_Descriptor, &packet.out.setData[0], _length & 63)
Vcp_SET_DEVICEDESC(length, setData) ==
  /\ dev_desc' = [i \in 1 .. DescLen |->
                   IF i <= length % 64 THEN setData[i] ELSE dev_desc[i]]
  /\ h_cur' = h_cur \cup {i \in 1 .. DescLen : i <= length % 64}
  /\ h_old' = h_old
  /\ UNCHANGED <<PGCONF, jtag_arch, xclk, usart, vcpVars, gp_fal, gp_ris, trst>>

\* jtag_scope_branch without the upload of the descriptor
Vcp_scope_branch ==
  \/ \E arch \in {ARCH_UPDI, ARCH_PDI} : Vcp_SET_PARAMETER(arch)
  \/ Vcp_general_SIGN_ON
  \/ \E r \in 0 .. ConnectRetries : Vcp_UPDI_SIGN_ON(r)
  \/ Vcp_UPDI_SIGN_OFF
  \/ \E ok \in BOOLEAN : Vcp_UPDI_ENTER_PROGMODE(ok)
  \/ \E ok \in BOOLEAN : Vcp_TPI_ENTER(ok)
  \/ Vcp_TPI_LEAVE

\* the main loop has a command: is_not_dap is false, _wdt = true
Vcp_command ==
  /\ gp_usb
  /\ wdt' = TRUE
  /\ Vcp_scope_branch
  /\ UNCHANGED <<gp_usb, usb_addr, dtr, h_sw0>>
  /\ Runs

\* USB::request_class: SET_LINE_ENCODING, USART::set_line_encoding
CDC_SET_LINE_ENCODING(rate) ==
  /\ UNCHANGED descVars
  /\ IF rate = line_enc
     THEN UNCHANGED <<usart, gp_vcp, gp_fal, gp_ris>>
     ELSE /\ Leaves(change_vcp(USART_setup(Uart(usart, gp_vcp)), rate))
          /\ DropsSw0
  /\ line_enc' = rate
  /\ UNCHANGED <<PGCONF, jtag_arch, xclk, gp_brk>>
  /\ UNCHANGED <<gp_usb, usb_addr, dtr, trst, wdt, h_sw0>>
  /\ Runs

\* USB::request_class: SET_SEND_BREAK, USB::break_on and USB::break_off
CDC_SET_SEND_BREAK(send_break) ==
  /\ UNCHANGED descVars
  /\ IF send_break # 0
     THEN /\ Leaves(IF gp_vcp /\ ~gp_brk THEN disable_vcp(Uart(usart, gp_vcp))
                    ELSE Uart(usart, gp_vcp))
          /\ gp_brk' = TRUE
          /\ UNCHANGED <<gp_fal, gp_ris>>
     ELSE /\ Leaves(IF gp_vcp /\ gp_brk
                    THEN change_vcp(Uart(usart, gp_vcp), line_enc)
                    ELSE Uart(usart, gp_vcp))
          /\ gp_brk' = FALSE
          /\ IF gp_vcp /\ gp_brk THEN DropsSw0 ELSE UNCHANGED <<gp_fal, gp_ris>>
  /\ UNCHANGED <<PGCONF, jtag_arch, xclk, line_enc>>
  /\ UNCHANGED <<gp_usb, usb_addr, dtr, trst, wdt, h_sw0>>
  /\ Runs

\* USB::request_class: SET_LINE_STATE, USART::set_line_state with
\* CONFIG_VCP_DTR_RESET
CDC_SET_LINE_STATE(line_state) ==
  /\ UNCHANGED descVars
  /\ IF ~dtr /\ line_state
     THEN gp_fal' = TRUE /\ gp_ris' = TRUE
     ELSE UNCHANGED <<gp_fal, gp_ris>>
  /\ dtr' = line_state
  /\ UNCHANGED <<PGCONF, jtag_arch, xclk, usart, vcpVars>>
  /\ UNCHANGED <<gp_usb, usb_addr, trst, wdt, h_sw0>>
  /\ Runs

\* USB::request_standard: SET_ADDRESS, SET_CONFIGURATION
USB_request_standard(bRequest) ==
  /\ UNCHANGED descVars
  /\ usb_addr' = (bRequest = 5 \/ usb_addr)
  /\ gp_usb' = (bRequest = 9 \/ gp_usb)
  /\ UNCHANGED <<PGCONF, jtag_arch, xclk, usart, vcpVars>>
  /\ UNCHANGED <<gp_fal, gp_ris, dtr, trst, wdt, h_sw0>>
  /\ Runs

\* SYS::reboot, and main() up to its loop: the registers and .bss are
\* cleared, the NOINIT variables are not
reboot(cause) ==
  /\ PGCONF' = {}
  /\ usart' = "off"
  /\ gp_vcp' = FALSE
  /\ gp_brk' = FALSE
  /\ line_enc' = 0
  /\ gp_usb' = FALSE
  /\ gp_fal' = FALSE
  /\ gp_ris' = FALSE
  /\ usb_addr' = FALSE
  /\ dtr' = FALSE
  /\ trst' = "high"
  /\ wdt' = TRUE
  /\ h_boot' = cause
  /\ UNCHANGED <<jtag_arch, xclk, h_sw0>>

\* USB::setup_device(false): GPCONF = 0, PGCONF = 0, USB0_ADDR = 0
Vcp_setup_device ==
  /\ PGCONF' = {}
  /\ gp_vcp' = FALSE
  /\ gp_brk' = FALSE
  /\ gp_usb' = FALSE
  /\ gp_fal' = FALSE
  /\ gp_ris' = FALSE
  /\ usb_addr' = FALSE
  /\ UNCHANGED <<jtag_arch, xclk, usart, line_enc>>
  /\ UNCHANGED <<dtr, trst, wdt, h_sw0>>
  /\ Runs

Enumerated_Always == TRUE

\* if (bit_is_set(GPCONF, GPCONF_USB_bp)) SYS::reboot()
Enumerated == gp_usb

\* USB::handling_bus_events: a bus reset, or a suspend or resume
handling_bus_events(busstate) ==
  /\ UNCHANGED descVars
  /\ IF busstate \in {"suspend", "resume"} /\ Enumerated
     THEN reboot("suspend")
     ELSE Vcp_setup_device

Sw0Enabled_Always == TRUE

\* main: if (bit_is_clear(PGCONF, PGCONF_UPDI_bp))
Sw0Enabled == "UPDI" \notin PGCONF

\* ISR of PIN_SYS_SW0 and ISR(CCL_CCL_vect): SW0 released, SW0 pushed
SW0_ISR(edge) ==
  /\ UNCHANGED descVars
  /\ gp_ris' = (edge = "rising" \/ gp_ris)
  /\ gp_fal' = (edge = "falling" \/ gp_fal)
  /\ UNCHANGED <<PGCONF, jtag_arch, xclk, usart, vcpVars>>
  /\ UNCHANGED <<gp_usb, usb_addr, dtr, trst, wdt, h_sw0>>
  /\ Runs

\* main: SYS::reset_enter, which sends SYSRST where _jtag_arch is 5 and
\* pulls TRST low, or SYS::reset_leave
Main_SW0 ==
  /\ UNCHANGED descVars
  /\ Sw0Enabled
  /\ gp_fal \/ gp_ris
  /\ IF gp_fal
     THEN /\ trst' = "low"
          /\ gp_fal' = FALSE
          /\ h_sw0' = IF "UPDI" \in PGCONF THEN "held" ELSE "free"
          /\ UNCHANGED <<PGCONF, jtag_arch, xclk, usart, vcpVars>>
          /\ UNCHANGED <<gp_usb, gp_ris, usb_addr, dtr, wdt>>
          /\ Runs
     ELSE IF ~gp_usb /\ ~usb_addr
     THEN reboot("sw0")
     ELSE /\ trst' = "high"
          /\ gp_fal' = FALSE
          /\ gp_ris' = FALSE
          /\ h_sw0' = IF "UPDI" \in PGCONF THEN "held" ELSE "free"
          /\ UNCHANGED <<PGCONF, jtag_arch, xclk, usart, vcpVars>>
          /\ UNCHANGED <<gp_usb, usb_addr, dtr, wdt>>
          /\ Runs

\* main: no command has come, and SW0 was released in programming mode
Main_not_dap ==
  /\ UNCHANGED descVars
  /\ gp_usb
  /\ "PROG" \in PGCONF
  /\ gp_ris
  /\ wdt' = FALSE
  /\ gp_ris' = FALSE
  /\ UNCHANGED <<PGCONF, jtag_arch, xclk, usart, vcpVars>>
  /\ UNCHANGED <<gp_usb, gp_fal, usb_addr, dtr, trst, h_sw0>>
  /\ Runs

\* the watchdog, which the loop no longer refreshes, resets the system
WDT_reset ==
  /\ UNCHANGED descVars
  /\ ~wdt
  /\ reboot("wdt")

\* main() up to its loop: USART::setup, USB::setup_device(true)
InitVcp ==
  /\ FrameParked
  /\ SessParked
  /\ xclk = XclkDefault
  /\ usart = "off"
  /\ jtag_arch \in NoInitArch
  /\ tcb0 = FALSE
  /\ t_pc = "idle"
  /\ t_func = "none"
  /\ t_fail = "none"
  /\ t_result = 0
  /\ op_ret = NoValue
  /\ t_retried = FALSE
  /\ t_hist = NoHist
  /\ NvmParked

NextVcp ==
  /\ \/ Vcp_command
     \/ \E rate \in LineRates : CDC_SET_LINE_ENCODING(rate)
     \/ \E send_break \in {0, 1} : CDC_SET_SEND_BREAK(send_break)
     \/ \E line_state \in BOOLEAN : CDC_SET_LINE_STATE(line_state)
     \/ \E bRequest \in {5, 9} : USB_request_standard(bRequest)
     \/ \E busstate \in {"reset", "suspend", "resume"} :
          handling_bus_events(busstate)
     \/ \E edge \in {"rising", "falling"} : SW0_ISR(edge)
     \/ Main_SW0
     \/ Main_not_dap
     \/ WDT_reset
  /\ UNCHANGED <<frameVars, sessIdle, Command_Table, nvmIdle, h_arch, restVars>>
  /\ UNCHANGED <<tcb0, t_pc, t_func, t_fail, t_result, op_ret, t_retried, t_hist>>

SpecVcp == InitVcp /\ [][NextVcp]_vars

(***************************************************************************)
(* SpecDesc: the commands of SpecVcp and the upload of the device          *)
(* descriptor, on a device that stays configured.  Device_Descriptor is    *)
(* NOINIT.                                                                 *)
(***************************************************************************)
DescBytes == {0, 1}

DescLengths == {0, 1, 2, 65}

InitDesc ==
  /\ FrameParked
  /\ SessParked
  /\ xclk = XclkDefault
  /\ usart = "off"
  /\ jtag_arch \in NoInitArch
  /\ tcb0 = FALSE
  /\ t_pc = "idle"
  /\ t_func = "none"
  /\ t_fail = "none"
  /\ t_result = 0
  /\ op_ret = NoValue
  /\ t_retried = FALSE
  /\ t_hist = NoHist
  /\ before_page = NoPage
  /\ sib = NoSib
  /\ n_cmd = [kind |-> "none", m_type |-> 0, addr |-> 0, len |-> 0, pg |-> {}]
  /\ n_out = MemOut(0, 0, <<>>, FALSE, FALSE, 0, NoPage)
  /\ n_prev = NoPage
  /\ n_last = NoPage
  /\ n_cmds = 0
  /\ tpi_chunks = 0
  /\ vtarget = 0
  /\ v_enter = 0
  /\ n_own = {}
  /\ h_arch = NoArch
  /\ gp_vcp = FALSE
  /\ gp_brk = FALSE
  /\ line_enc = 0
  /\ gp_usb = TRUE
  /\ gp_fal = FALSE
  /\ gp_ris = FALSE
  /\ usb_addr = TRUE
  /\ dtr = FALSE
  /\ trst = "high"
  /\ wdt = TRUE
  /\ h_sw0 = "none"
  /\ h_boot = "none"
  /\ dev_desc \in [1 .. DescLen -> DescBytes]
  /\ h_cur = {}
  /\ h_old = [i \in 1 .. DescLen |-> NoValue]
  /\ RestParked

NextDesc ==
  /\ gp_usb
  /\ wdt' = TRUE
  /\ \/ Vcp_scope_branch
     \/ \E length \in DescLengths, setData \in [1 .. DescLen -> DescBytes] :
          Vcp_SET_DEVICEDESC(length, setData)
  /\ UNCHANGED <<gp_usb, usb_addr, dtr, h_sw0>>
  /\ Runs
  /\ UNCHANGED <<frameVars, sessIdle, Command_Table, nvmIdle, h_arch, restVars>>
  /\ UNCHANGED <<tcb0, t_pc, t_func, t_fail, t_result, op_ret, t_retried, t_hist>>

SpecDesc == InitDesc /\ [][NextDesc]_vars

(***************************************************************************)
(* Properties of the timeout supervisor.                                   *)
(***************************************************************************)
\* C8: around an operation that never completes, Timeout::command with the
\* UPDI or PDI timeout_fallback returns 0, gives up as soon as the fallback
\* finds the clock at its floor, and always returns, whatever clock the host
\* configured.
C8_GivesUpAtFloor ==
  /\ [](t_pc = "ret" /\ t_func = "never" /\ t_fail # "none" => t_result = 0)
  /\ [][(t_pc = "expired" /\ t_fail # "none" /\ xclk = Floor(t_fail)) =>
          (t_pc' = "ret" /\ xclk' = xclk)]_vars
  /\ ((t_pc = "loop" /\ t_func = "never" /\ t_fail # "none") ~> (t_pc = "ret"))

\* the PDI fallback lowered the clock to its floor and command gave up
C8_Witness ==
  /\ t_pc = "ret"
  /\ t_func = "never"
  /\ t_fail = "PDI"
  /\ t_retried
  /\ xclk = PDI_FLOOR
  /\ t_result = 0

\* C9: when the operation has returned, command returns exactly what it
\* returned, the countdown is off and the deadline interrupt cannot fire.
C9_ReturnsOperationResult ==
  (t_pc = "ret" /\ op_ret # NoValue) =>
     /\ t_result = op_ret
     /\ ~tcb0
     /\ ~ENABLED TCB0_ISR

\* the operation returned 5 at the first attempt and command returned it
C9_Witness ==
  /\ t_pc = "ret"
  /\ ~t_retried
  /\ op_ret = 5
  /\ t_result = 5

(***************************************************************************)
(* Properties of the sessions.                                             *)
(***************************************************************************)
\* C6: in every reachable state, whatever commands the host sent in whatever
\* scope and whatever timed out, the PROG bit of PGCONF is set only if the
\* link bit is set.
C6_ProgOnlyWithLink == "PROG" \in PGCONF => "UPDI" \in PGCONF

\* C7: a call made through Command_Table before the first successful
\* UPDI::connect finds the table bound to the NVM::V1 stub.
C7_EarlyCallsLandOnStub == ct_early \in {"none", "V1"}

\* UPDI::connect is running
InConnect == s_pc = "wait" /\ s_k \in {"connect_activate", "connect_sib"}

\* C10: a UPDI SIGN_ON to a target that never answers on UPDI makes its four
\* attempts and no more, then answers RSP3_FAILED with the link and PROG bits
\* clear, and it always answers.
C10_SignOnGivesUp ==
  /\ [][(InConnect /\ target.kind # "updi" /\ s_pc' = "idle") =>
          /\ s_r' = 4
          /\ res' = RSP3_FAILED
          /\ rspsize' = 0
          /\ PGCONF' \cap {"UPDI", "PROG"} = {}]_vars
  /\ [](InConnect /\ target.kind # "updi" =>
          s_r < 4 /\ PGCONF \cap {"UPDI", "PROG"} = {})
  /\ ((InConnect /\ target.kind # "updi") ~> (s_pc = "idle"))

\* no target: the first command was a UPDI SIGN_ON and it was answered
\* RSP3_FAILED after four attempts
C10_Witness ==
  /\ s_pc = "idle"
  /\ ncmds = 1
  /\ target.kind = "none"
  /\ Command_Table = "V1"
  /\ s_r = 4
  /\ res = RSP3_FAILED
  /\ PGCONF \cap {"UPDI", "PROG"} = {}

\* C11: UPDI::connect succeeds only out of read_sib having returned 5 for
\* the 32 bytes of the SIB; it then leaves Command_Table bound to the NVM
\* variant of the SIB's version character, with the link bit set.  With a
\* version character read_sib does not know, connect fails, the link bit
\* stays clear and Command_Table stays bound to the NVM::V1 stub.
C11_ConnectBindsVariant ==
  /\ [][(InConnect /\ s_pc' = "idle" /\ res' # RSP3_FAILED) =>
          /\ s_k = "connect_sib" /\ t_func = "read_sib"
          /\ t_result = 5 /\ rspsize' = 5 /\ res' = RSP3_DATA
          /\ target.kind = "updi"
          /\ target.nvm = 52 => Command_Table' = "V4"
          /\ target.nvm = 51 => Command_Table' = "V3"
          /\ target.nvm \in {51, 52}
          /\ "UPDI" \in PGCONF']_vars
  /\ [][(InConnect /\ target.nvm = NvmOther /\ s_pc' = "idle") =>
          /\ res' = RSP3_FAILED
          /\ "UPDI" \notin PGCONF'
          /\ Command_Table' = "V1"]_vars
  /\ [](InConnect /\ target.nvm = NvmOther =>
          "UPDI" \notin PGCONF /\ Command_Table = "V1")

\* the first command was a UPDI SIGN_ON to a device whose SIB says NVM
\* version 3, and it was answered with the SIB
C11_Witness ==
  /\ s_pc = "idle"
  /\ ncmds = 1
  /\ target.nvm = 51
  /\ res = RSP3_DATA
  /\ rspsize = 5
  /\ Command_Table = "V3"
  /\ "UPDI" \in PGCONF

\* the command codes each scope function tests for
Implemented(scope) ==
  CASE scope = SCOPE_GENERAL ->
         {CMD3_GET_PARAMETER, CMD3_SIGN_ON, CMD3_SIGN_OFF}
    [] scope = SCOPE_EDBG -> {CMD3_SET_PARAMETER, CMD3_GET_PARAMETER}
    [] scope = SCOPE_AVR ->
         {CMD3_SET_PARAMETER, CMD3_GET_PARAMETER} \cup EngineCmds
    [] scope = SCOPE_AVR_TPI -> 1 .. 7
    [] OTHER -> {}

\* C17: a command whose scope the dispatcher has no branch for, or whose
\* command code the scope function has no branch for, is answered with the
\* failure code (RSP3_FAILED, XPRG_ERR_FAILED in the TPI scope), never with
\* RSP3_OK or RSP3_DATA.
C17_UnknownAnsweredFailed ==
  [][(/\ s_pc = "branch"
      /\ s_cmd.cmd \notin Implemented(s_cmd.scope)
      /\ s_pc' = "idle") =>
        res' = (IF s_cmd.scope = SCOPE_AVR_TPI THEN XPRG_ERR_FAILED
                ELSE RSP3_FAILED)]_vars

\* a command of the AVR scope other than SET_PARAMETER and GET_PARAMETER is
\* about to be dispatched
AvrCommand ==
  /\ s_pc = "branch"
  /\ s_cmd.scope = SCOPE_AVR
  /\ s_cmd.cmd \notin {CMD3_SET_PARAMETER, CMD3_GET_PARAMETER}

\* C18: a command of the AVR scope other than GET_PARAMETER and
\* SET_PARAMETER goes to the UPDI engine exactly when the architecture the
\* last SET_PARAMETER(PARM3_ARCH) selected is UPDI, to the PDI engine exactly
\* when it is PDI, and is answered RSP3_FAILED when no architecture has been
\* selected since the last general SIGN_ON.
C18_DelegatesBySelector ==
  /\ [](AvrCommand => /\ ToEngine(ARCH_UPDI) <=> h_arch = ARCH_UPDI
                      /\ ToEngine(ARCH_PDI) <=> h_arch = ARCH_PDI)
  /\ [][(AvrCommand /\ h_arch = NoArch) =>
          s_pc' = "idle" /\ res' = RSP3_FAILED]_vars

\* C19: when a SIGN_OFF has been handled, in the general scope or in the
\* AVR scope, whatever the target answered, and when a USB bus reset has been
\* handled, PGCONF is all zero.
C19_SignOffClearsPGCONF ==
  /\ [][(/\ s_pc # "idle"
          /\ s_cmd.scope \in {SCOPE_GENERAL, SCOPE_AVR}
          /\ s_cmd.cmd = CMD3_SIGN_OFF
          /\ s_pc' = "idle") => PGCONF' = {}]_vars
  /\ [][USB_setup_device => PGCONF' = {}]_vars

(***************************************************************************)
(* Properties of the shared USART.                                         *)
(***************************************************************************)
\* C20: while a programming session holds the link, GPCONF_VCP_bp is clear
\* and the USART is not in the VCP configuration, however the commands are
\* interleaved with the CDC class requests.
C20_VcpOffWhileLinked ==
  "UPDI" \in PGCONF => ~gp_vcp /\ usart # "vcp"

(***************************************************************************)
(* Properties of the UPDI memory commands.                                 *)
(***************************************************************************)
\* the page a 32 bit address lies in
PageOf(dwAddr) ==
  dwAddr - (dwAddr % (Device_Descriptor.flash_page_size_msb * 256
                      + Device_Descriptor.flash_page_size))

\* C12: in programming mode with NVM::V4 bound, a flash write that goes to
\* another page than the flash write before it in the session issues exactly
\* one page erase, and a flash write to the same page issues none.
C12_EraseAtPageChange ==
  (n_cmd.kind = "write" /\ n_last # NoPage /\ n_prev # NoPage) =>
     n_out.erases = IF PageOf(n_last) # PageOf(n_prev) THEN 1 ELSE 0

\* C13: a WRITE_MEMORY that comes while PROG is clear is answered RSP3_FAILED
\* with _rspsize 0 and sends nothing to the target, unless it is a USERROW
\* write whose address and length are those of the device descriptor.
C13_WriteOutsideProgRejected ==
  (/\ n_cmd.kind = "write"
   /\ "PROG" \notin n_cmd.pg
   /\ ~(/\ n_cmd.m_type = MTYPE_USERSIG
        /\ n_cmd.addr = Device_Descriptor.user_sig_base
        /\ n_cmd.len = Device_Descriptor.user_sig_bytes)) =>
     /\ n_out.res = RSP3_FAILED
     /\ n_out.size = 0
     /\ ~n_out.sent

\* C14: with the link up and PROG clear, a READ_MEMORY of the signature is
\* answered RSP3_DATA with the dummy signature made from the SIB, and the
\* target is not read.
C14_LockedSignatureIsDummy ==
  (/\ n_cmd.kind = "read"
   /\ n_cmd.m_type = MTYPE_SIGN_JTAG
   /\ "UPDI" \in n_cmd.pg
   /\ "PROG" \notin n_cmd.pg) =>
     /\ n_out.res = RSP3_DATA
     /\ n_out.size = U16(n_cmd.len + 1)
     /\ n_out.data = <<30, IF sib[1] = 32 THEN 65 ELSE sib[1], sib[2]>>
     /\ ~n_out.read
     /\ ~n_out.sent

(***************************************************************************)
(* Properties of the TPI memory commands.                                  *)
(***************************************************************************)
\* C15: a TPI write starts at the request's address rounded down to the
\* chunk size and streams a multiple of the chunk size that covers the
\* request; the requested bytes go to their own addresses and every other
\* byte streamed is 0xFF.
C15_WriteWidenedWithFF ==
  (n_cmd.kind = "tpi_write" /\ n_out.sent) =>
     /\ n_out.at % tpi_chunks = 0
     /\ n_cmd.addr - n_out.at \in 0 .. (tpi_chunks - 1)
     /\ Len(n_out.data) % tpi_chunks = 0
     /\ Len(n_out.data) >= (n_cmd.addr - n_out.at) + n_cmd.len
     /\ Len(n_out.data) < (n_cmd.addr - n_out.at) + n_cmd.len + tpi_chunks
     /\ \A i \in 1 .. Len(n_out.data) :
          n_out.data[i] =
            IF /\ i > n_cmd.addr - n_out.at
               /\ i <= (n_cmd.addr - n_out.at) + n_cmd.len
            THEN 16 + (i - (n_cmd.addr - n_out.at))
            ELSE 255

\* C16: an ERASE or WRITE_MEM of the TPI scope that comes while the supply
\* measured at ENTER_PROGMODE is below 4500 mV is answered XPRG_ERR_FAILED
\* and nothing is sent to the target; a READ_MEM over the link is carried out
\* whatever the supply.
C16_SupplyGate ==
  /\ (n_cmd.kind \in {"tpi_erase", "tpi_write"} /\ v_enter < 4500) =>
        /\ n_out.res = XPRG_ERR_FAILED
        /\ n_out.size = 1
        /\ ~n_out.sent
        /\ n_out.erases = 0
        /\ n_out.data = <<>>
  /\ (n_cmd.kind = "tpi_read" /\ "UPDI" \in n_cmd.pg) =>
        /\ n_out.res = XPRG_ERR_OK
        /\ n_out.read

\* an ERASE came over the link with 4499 mV measured and was refused
C16_Witness ==
  /\ n_cmd.kind = "tpi_erase"
  /\ "UPDI" \in n_cmd.pg
  /\ v_enter = 4499
  /\ n_out.res = XPRG_ERR_FAILED
  /\ ~n_out.sent

(***************************************************************************)
(* Properties of the transport framing.                                    *)
(***************************************************************************)
RECURSIVE Concat(_)
Concat(fs) ==
  IF fs = <<>> THEN <<>>
  ELSE [i \in 1..Head(fs).size |-> Payload(Head(fs).pat, i - 1)] \o Concat(Tail(fs))

\* the report in dap_out is being handled by this step of the main loop
Handling == main_pc = "poll" /\ ep_dpo = "busnak"

\* dap_command_check has just returned true for the report in dap_out
Completed == main_pc = "branch" /\ ep_dpo = "listen"

\* fragments the response in rsp takes
RspFragments == (Len(rsp) + ChunkLen - 1) \div ChunkLen

\* C1: whenever dap_command_check reports a message with declared count
\* N <= 9 complete, the message consisted of fragments 1..N in index order
\* and the buffer holds exactly the concatenation of their payloads.
C1_BufferIsConcatenation ==
  (Completed /\ dap_out.endf < EndfLimit) =>
     /\ Len(msgFrags) = dap_out.endf
     /\ \A i \in 1..Len(msgFrags) : msgFrags[i].frag = i
     /\ packet_length = Len(Concat(msgFrags))
     /\ \A k \in 1..Len(Concat(msgFrags)) :
           ReadRaw(rawData, k - 1) = Concat(msgFrags)[k]

\* C2: dap_command_check returns true only on the fragment whose index equals
\* the declared end count and only if as many fragments of that message were
\* received; a last fragment of a message with another number of fragments
\* is answered FAIL.
C2_CompleteOnlyWhenCounted ==
  /\ Completed =>
        /\ dap_out.frag = dap_out.endf
        /\ Len(msgFrags) = dap_out.endf
  /\ (ep_dpo = "listen" /\ dap_out.cmd = EDBG_CMD /\ msgDone
        /\ dap_out.frag = dap_out.endf /\ Len(msgFrags) # dap_out.endf) =>
        dap_in.b1 = 0

\* C3: a fragment that declares more than 9 fragments is answered FAIL, does
\* not start the dispatcher and leaves every byte of the buffer unchanged.
C3_RefuseOverNine ==
  [][(Handling /\ dap_out.cmd = EDBG_CMD /\ dap_out.endf > 9) =>
       (rawData' = rawData /\ dap_in'.b1 = 0 /\ main_pc' = "poll")]_vars

C3_Witness ==
  /\ ep_dpo = "listen"
  /\ main_pc = "poll"
  /\ dap_out.cmd = EDBG_CMD
  /\ dap_out.endf = 10
  /\ dap_in.b1 = 0
  /\ rawData[0] # Stale
  /\ npkts >= 2

\* C4: after a dispatch, until every fragment of the response has been
\* served, a 0x80 fragment is refused and does not change the buffer.
C4_NoFragmentWhilePending ==
  [][(Handling /\ dap_out.cmd = EDBG_CMD /\ rspValid /\ Len(served) < RspFragments) =>
       (rawData' = rawData /\ dap_in'.b1 = 0 /\ main_pc' = "poll")]_vars

\* C5: a response of length L is served in (L+65)/60 = ceil((L+6)/60)
\* fragments, no more, each numbered in order, 60 bytes each and the last
\* carrying the remaining length, and together they are the response bytes.
C5_ResponseServedExactly ==
  rspValid =>
     /\ CompleteEndfrag(Len(rsp) - RspOverhead) = RspFragments
     /\ Len(served) <= RspFragments
     /\ \A i \in 1..Len(served) :
          /\ served[i].b1 = i * 16 + RspFragments
          /\ served[i].b3 = IF i = RspFragments
                            THEN Len(rsp) - ChunkLen * (i - 1) ELSE ChunkLen
          /\ \A j \in 1..served[i].b3 :
                served[i].data[j] = rsp[ChunkLen * (i - 1) + j]

\* a response of two fragments was served completely
C5_Witness ==
  /\ rspValid
  /\ RspFragments = 2
  /\ Len(served) = 2

\* C21: while the link bit is set, neither a press nor a release of SW0
\* has driven the target's reset line or sent it a reset frame: whenever
\* the button acted on the target, no session held the link.
C21_Sw0OffWhileLinked == h_sw0 # "held"

\* SW0 was pushed while a session holds the link, and the button had
\* acted on the target before, outside a session
C21_Witness == gp_fal /\ "UPDI" \in PGCONF /\ h_sw0 = "free"

C23_DescriptorCleared ==
  "UPDI" \in PGCONF =>
    \A i \in 1 .. DescLen :
      (i \notin h_cur /\ h_old[i] \notin {0, NoValue}) => dev_desc[i] # h_old[i]

\* the block sizes of C24: one byte, and the page of the memory type
\* (flash_page_size and user_sig_bytes of the descriptor, one byte where
\* the memory has no page)
FullPage(m_type) ==
  IF m_type \in {MTYPE_FLASH_PAGE, MTYPE_FLASH}
  THEN Device_Descriptor.flash_page_size_msb * 256
       + Device_Descriptor.flash_page_size
  ELSE IF m_type = MTYPE_USERSIG THEN Device_Descriptor.user_sig_bytes
  ELSE 1

\* C24: in programming mode, for every memory type WRITE_MEMORY has a case
\* for and for one byte or one full page, a WRITE_MEMORY followed by the
\* READ_MEMORY of the same type, address and length is answered OK, and
\* the read answers the written bytes.
C24_RoundTrip ==
  (/\ rt_pc = "read"
   /\ rt_r.m_type = rt_w.m_type /\ rt_r.addr = rt_w.addr
   /\ rt_r.len = rt_w.len
   /\ rt_w.m_type # MTYPE_SIGN_JTAG
   /\ rt_w.len \in {1, FullPage(rt_w.m_type)}) =>
    /\ rt_w.res = RSP3_OK
    /\ rt_r.res = RSP3_DATA
    /\ rt_r.size = rt_w.len + 1
    /\ \A i \in 0 .. rt_w.len - 1 : InData(i) = OutMemData(i)

UpdiOperations ==
  {"updi_disconnect", "updi_enter_progmode", "erase_memory", "read_memory",
   "write_memory"}

\* C26: when an operation of the UPDI engine has returned failure without
\* a deadline having elapsed, the command is answered RSP3_FAILED, and
\* Timeout::command tries an operation again only after a deadline.
C26_FailureReachesHost ==
  /\ [][(/\ jtag_arch = ARCH_UPDI
         /\ t_func \in UpdiOperations
         /\ t_pc # "idle" /\ t_pc' = "loop") => t_pc = "expired"]_vars
  /\ [][(/\ jtag_arch = ARCH_UPDI
         /\ t_func \in UpdiOperations
         /\ t_pc = "ret" /\ op_ret = 0 /\ ~t_retried
         /\ s_pc = "wait" /\ s_pc' = "idle") => res' = RSP3_FAILED]_vars

\* the echo of byte k of the send is a valid frame that holds the byte
EchoGood(k) == sb_echo[k].h = 128 /\ sb_echo[k].l = sb_data[k]

\* C27: every byte sent is compared with its echo: no byte is sent after
\* one whose echo was not a valid frame or differed, send_bytes returns
\* failure exactly when the echo of the last byte it sent was such, and
\* success only when all bytes were sent and echoed.
C27_EchoChecked ==
  /\ \A k \in 1 .. sb_sent - 1 : EchoGood(k)
  /\ sb_ret = 0 <=> (sb_sent > 0 /\ ~EchoGood(sb_sent))
  /\ sb_ret = 1 <=> (sb_sent = Len(sb_data) /\ sb_sent > 0
                     /\ EchoGood(sb_sent))

\* the second byte of three came back with a framing error: send_bytes
\* returned failure and the third byte was not sent
C27_Witness ==
  /\ Len(sb_data) = 3
  /\ sb_sent = 2
  /\ sb_echo[2].h = 132
  /\ sb_echo[2].l = sb_data[2]
  /\ sb_ret = 0

\* UPDI::connect starts an attempt: Timeout::command(&updi_activate, ...)
AttemptStarts ==
  t_func' = "updi_activate" /\ t_pc' = "loop" /\ t_pc # "loop"

C29_ConnectWithinBudget ==
  (cb_hv /\ cb_pc = "done") => cb_t <= BudgetTicks

\* Timeout::command has given up on a command of a linked UPDI session:
\* the operation was still polling at the deadline and timeout_fallback
\* returned 0 with _xclk at 40
LinkLost ==
  /\ s_pc = "wait"
  /\ t_pc = "ret"
  /\ t_fail = "UPDI"
  /\ t_result = 0
  /\ op_ret = NoValue
  /\ xclk = UPDI_FLOOR
  /\ "UPDI" \in PGCONF

\* C30: when the UPDI engine has handled a SIGN_OFF, and when a command of a
\* linked session has been answered after the target stopped responding and
\* the timeout fallback gave up, the link and programming bits of PGCONF
\* are clear.
C30_DisconnectedOnSignOffAndLinkLoss ==
  /\ [][(/\ s_pc # "idle"
          /\ s_cmd.scope = SCOPE_AVR
          /\ s_cmd.cmd = CMD3_SIGN_OFF
          /\ jtag_arch = ARCH_UPDI
          /\ s_pc' = "idle") => PGCONF' \cap {"UPDI", "PROG"} = {}]_vars
  /\ [][(LinkLost /\ s_pc' = "idle") =>
          PGCONF' \cap {"UPDI", "PROG"} = {}]_vars

\* the link and programming bits of PGCONF
SessionBits(pg) == pg \cap {"UPDI", "PROG"}

\* the command being handled is a connect, enter-progmode, disconnect or
\* leave-progmode of a protocol engine
SessionOperation ==
  /\ s_pc # "idle"
  /\ \/ /\ s_cmd.scope = SCOPE_AVR
        /\ s_cmd.cmd \in {CMD3_SIGN_ON, CMD3_SIGN_OFF, CMD3_ENTER_PROGMODE,
                          CMD3_LEAVE_PROGMODE}
     \/ /\ s_cmd.scope = SCOPE_AVR_TPI
        /\ s_cmd.cmd \in {XPRG_CMD_ENTER_PROGMODE, XPRG_CMD_LEAVE_PROGMODE}

\* C31: the link and programming bits of PGCONF change only while a
\* connect, enter-progmode, disconnect or leave-progmode command of an
\* engine is being handled (or at a USB bus reset); no read, write, erase,
\* parameter or general-scope command changes them.
C31_SessionBitsOnlyInSessionOps ==
  [][SessionBits(PGCONF') # SessionBits(PGCONF) =>
       SessionOperation \/ USB_setup_device]_vars

Place(op) ==
  IF \E i \in 1 .. Len(bw_log) : bw_log[i] = op
  THEN CHOOSE i \in 1 .. Len(bw_log) : bw_log[i] = op
  ELSE 0

\* C33: when a block write that streamed data has returned, it has sent
\* the enable control write before the data and the disable control write
\* after it.
C33_BlockWriteBracketed ==
  (bw_ret # NoValue /\ Place("data") > 0) =>
    /\ Place("set_rsd") > 0
    /\ Place("set_rsd") < Place("data")
    /\ Place("clear_rsd") > Place("data")

\* C34: a connect leaves _before_page at -1, which is the page of no
\* address, and the first flash write after a connect is taken as a page
\* change: it erases the page.
C34_FirstWriteAfterConnectErases ==
  /\ n_cmd.kind = "connect" => before_page = NoPage
  /\ \A addr \in MemAddrs :
       /\ is_boundary_flash_page(addr) # NoPage
       /\ is_boundary_flash_page(addr + PROG_START) # NoPage
  /\ (n_cmd.kind = "write" /\ n_out.at # NoPage /\ n_prev = NoPage) =>
       n_out.erases = 1

\* C35: a TPI write to the code area that was carried out went without the
\* section erase exactly when PGCONF_ERSE_bp recorded a chip erase of the
\* session; without that bit the section was erased before the write.
C35_TpiEraseSkippedOnlyAfterChipErase ==
  (/\ n_cmd.kind = "tpi_write"
   /\ n_cmd.m_type = XPRG_MEM_TYPE_APPL
   /\ n_out.sent) =>
     (n_out.erases = 0 <=> "ERSE" \in n_cmd.pg)

\* C36: the end-fragment count left for the response of a READ_MEMORY is
\* in 1 .. 15 for every length the host asks for.
C36_EndfragFitsNibble ==
  ln_op = "read" => ln_rsp.endfrag \in 1 .. 15

\* C37: every store lies within the 540 bytes of packet.rawData: the copy
\* of an inbound fragment, the data of a READ_MEMORY and the terminator of
\* the response.
C37_StoresInsideBuffer ==
  \A w \in ln_writes :
    w.n > 0 => (w.ofst < RawDataLen /\ w.ofst + w.n <= RawDataLen)


(***************************************************************************)
(* Properties of the deadline racing the end of the operation.             *)
(***************************************************************************)
\* C38: when the deadline interrupt fires after the operation has stored a
\* non-zero result and before Timeout::stop, command returns that result
\* and the fallback is not run: the clock and the USART stay as they were.
C38_LateDeadlineHarmless ==
  [][(t_pc = "expired" /\ t_result # 0) =>
        /\ t_pc' = "ret"
        /\ t_result' = op_ret
        /\ xclk' = xclk
        /\ usart' = usart]_vars

\* C39: whatever clock the host set and whatever fallbacks ran, _xclk is
\* never below the floor of the engine _jtag_arch selects (40 for UPDI, 50
\* for PDI), and a pass through the timeout fallback never leaves _xclk
\* higher than it found it.
C39_ClockFlooredAndFalling ==
  /\ [](xclk >= Floor(Engine(jtag_arch)))
  /\ [][t_pc = "expired" => xclk' <= xclk]_vars

\* C40: when PDI::disconnect, called for a PDI SIGN_OFF, returns on a
\* session whose link bit is set and whose target was answering on PDI, the
\* target has been sent the NVM-disable / leave-reset sequence and no longer
\* answers on PDI; it is in that state when the SIGN_OFF clears PGCONF and
\* hands the USART back to VCP.
C40_PdiSignOffLeavesTarget ==
  /\ [][(/\ s_pc = "wait"
         /\ s_k = "pdi_sign_off"
         /\ t_pc = "op"
         /\ "UPDI" \in PGCONF
         /\ Answers("pdi")
         /\ t_pc' = "stop") => ~Answers("pdi")']_vars
  /\ [][(/\ Returned("pdi_sign_off")
         /\ "UPDI" \in PGCONF
         /\ target.kind = "pdi"
         /\ usart = "pdi"
         /\ s_pc' = "idle") => ~t_on]_vars

====
